---- MODULE Spec2Model ----
(***************************************************************************)
(* Edabits conversion core (ocelot/src/edabits/edabits.rs): the batched    *)
(* ripple-carry adder bit_add_carry, the bit-to-field conversion           *)
(* convert_bit_2_field, the dabit consistency check fdabit, the parameter  *)
(* check, the Fisher-Yates shuffle and the conv driver, for the two roles  *)
(* Prover and Verifier.                                                    *)
(*                                                                         *)
(* Authenticated values.  A MacProver is the pair <<clear, mac>> and a     *)
(* MacVerifier is the Verifier's key.  The homomorphic commitment FCom is  *)
(* outside edabits.rs; it is modelled by what it authenticates: the mac of *)
(* a MacProver and the key of the matching MacVerifier are both the field  *)
(* element the pair is committed to, the local operations act on it        *)
(* linearly, open succeeds iff the clear value sent equals it, and         *)
(* check_zero / check_multiply accept iff the committed values are zero /  *)
(* multiplicative.                                                         *)
(*                                                                         *)
(* Each role's local state is a record (prover, verifier); the two         *)
(* directions of the channel are the queues toVerifier and toProver; hist   *)
(* records facts of the run that no role stores (history variables).       *)
(* Several specifications share these variables, one per component.        *)
(***************************************************************************)
EXTENDS Integers, Sequences, FiniteSets, TLC

VARIABLES prover, verifier, toVerifier, toProver, hist

vars == <<prover, verifier, toVerifier, toProver, hist>>

(***************************************************************************)
(* Bounds of the model.                                                    *)
(***************************************************************************)
\* The prime field is the Mersenne-shaped field of FieldBits bits (F61p in
\* the tests has 61); FieldBits is FE::NumberOfBitsInBitDecomposition.
FieldBits == 5

\* bit_add_carry is run on batches of num edabits of m bits, num * m <= MaxAddCells.
MaxAddCells == 6

\* check_parameters is applied to every n <= MaxParamN and gamma <= MaxParamGamma.
MaxParamN == 15

MaxParamGamma == 6

\* convert_bit_2_field is run on batches of at most MaxCbBatch dabits.
MaxCbBatch == 2

\* fdabit is run on batches of at most MaxDabits dabits.
MaxDabits == 3

\* conv: at most MaxEdabits caller edabits of at most MaxNbBits bits, at most
\* MaxBucket buckets and MaxCut cut elements, at most MaxDabits random dabits,
\* at most MaxConvBits bits in the caller's edabits, the random edabits and
\* the random triples together, and SeedSpace shuffle seeds.
MaxEdabits == 2

MaxNbBits == 2

MaxBucket == 3

MaxCut == 2

MaxConvBits == 4

SeedSpace == 3

(***************************************************************************)
(* Sequences.                                                              *)
(***************************************************************************)
Range(s) == {s[k] : k \in DOMAIN s}

SeqMap(Op(_), s) == [k \in 1..Len(s) |-> Op(s[k])]

\* s[a..b) with 0-based bounds, as the slices of the source.
Slice(s, a, b) == [k \in 1..(b - a) |-> s[a + k]]

RECURSIVE Flatten(_)
Flatten(ss) == IF ss = <<>> THEN <<>> ELSE Head(ss) \o Flatten(Tail(ss))

BitSeqs(m) == [1..m -> {0, 1}]

\* The integer a little-endian bit vector encodes.
RECURSIVE IntOf(_)
IntOf(bs) == IF bs = <<>> THEN 0 ELSE Head(bs) + 2 * IntOf(Tail(bs))

(***************************************************************************)
(* Fields: F2 and the prime field FE of modulus P.                         *)
(***************************************************************************)
P == 2^FieldBits - 1

NumberOfBitsInBitDecomposition == FieldBits

F2Add(a, b) == (a + b) % 2

F2Mul(a, b) == (a * b) % 2

FEAdd(a, b) == (a + b) % P

FENeg(a) == (P - (a % P)) % P

FEMul(a, b) == (a * b) % P

\* bit_decomposition()[0]: the low bit of the canonical representative.
LowBit(a) == (a % 2) = 1

(***************************************************************************)
(* Field helpers of edabits.rs.                                            *)
(***************************************************************************)
\* conditional_select(&ONE, &ZERO, b == 0): ZERO when b is zero, ONE otherwise.
f2_to_fe(b) == IF b = 0 THEN 0 ELSE 1

\* for b in v.iter().rev() { res += res; res += f2_to_fe(b) }, from index k down.
RECURSIVE FoldFrom(_, _, _)
FoldFrom(v, k, res) ==
    IF k = 0 THEN res
    ELSE FoldFrom(v, k - 1, FEAdd(FEAdd(res, res), f2_to_fe(v[k])))

\* The fold taken over v.iter() instead of v.iter().rev(): index 0 as the
\* most significant bit.
convert_bits_to_field_msb_first(v) ==
    FoldFrom([k \in 1..Len(v) |-> v[Len(v) + 1 - k]], Len(v), 0)

convert_bits_to_field(v) == FoldFrom(v, Len(v), 0)

\* The fold taken over the MAC components b.1 instead of the clear bits b.0.
convert_bits_to_field_mac_tags(v) ==
    FoldFrom([k \in 1..Len(v) |-> v[k][2]], Len(v), 0)

\* The same fold over the clear components of MacProver bits.
convert_bits_to_field_mac(v) == FoldFrom([k \in 1..Len(v) |-> v[k][1]], Len(v), 0)

RECURSIVE power_two(_)
power_two(m) == IF m = 0 THEN 1 ELSE LET r == power_two(m - 1) IN FEAdd(r, r)

(***************************************************************************)
(* FCom, by what it authenticates.                                         *)
(***************************************************************************)
MacProver(v, m) == <<v, m>>

\* An honest commitment of the clear value v.
Commit(v) == MacProver(v, v)

\* FComProver::add over F2 / FE: component-wise.
FComProverF2_add(a, b) == MacProver(F2Add(a[1], b[1]), F2Add(a[2], b[2]))

FComVerifierF2_add(a, b) == F2Add(a, b)

FComProver_add(a, b) == MacProver(FEAdd(a[1], b[1]), FEAdd(a[2], b[2]))

FComVerifier_add(a, b) == FEAdd(a, b)

FComProver_neg(a) == MacProver(FENeg(a[1]), FENeg(a[2]))

FComVerifier_neg(a) == FENeg(a)

FComProver_affine_add_cst(cst, a) == MacProver(FEAdd(cst, a[1]), FEAdd(cst, a[2]))

FComVerifier_affine_add_cst(cst, a) == FEAdd(cst, a)

FComProver_affine_mult_cst(cst, a) == MacProver(FEMul(cst, a[1]), FEMul(cst, a[2]))

FComVerifier_affine_mult_cst(cst, a) == FEMul(cst, a)

FComProverF2_affine_mult_cst(cst, a) == MacProver(F2Mul(cst, a[1]), F2Mul(cst, a[2]))

FComVerifierF2_affine_mult_cst(cst, a) == F2Mul(cst, a)

\* Messages of the interactive FCom calls, Prover to Verifier.
InputMsg(fld, vals) == [op |-> "input", fld |-> fld, vals |-> vals]

OpenMsg(fld, macs) == [op |-> "open", fld |-> fld, vals |-> SeqMap(LAMBDA a : a[1], macs)]

\* FComVerifier::open: the clear values read are accepted iff they are the
\* committed ones.
OpenAccepts(msg, keys) == msg.vals = keys

\* quicksilver_check_multiply on the Verifier: accepts iff every triple is
\* multiplicative in the committed values.
TriplesMultiplyF2(triples) == \A k \in 1..Len(triples) :
    triples[k][3] = F2Mul(triples[k][1], triples[k][2])

\* FComProver::input: the macs of the values put in, which the Verifier's
\* matching input receives as its keys.
FComProver_input(vals) == vals

\* check_multiply on either role: the Verifier sends its challenge, the
\* Prover answers with its proof.
ChallengeMsg(kind) == [op |-> "challenge", kind |-> kind]

ProofMsg(kind) == [op |-> "proof", kind |-> kind]

CheckKind(random_triples) == IF Len(random_triples) = 0 THEN "quicksilver" ELSE "wolverine"

(***************************************************************************)
(* bit_add_carry.                                                          *)
(***************************************************************************)
\* The round with the next carry taken without the old carry.
Prover_add_round_bad_carry(x_batch, y_batch, i, st) ==
    LET num == Len(x_batch)
        ci(n) == MacProver(st.ci_batch[n], st.ci_mac_batch[n])
        and1(n) == FComProverF2_add(x_batch[n].bits[i], ci(n))
        and2(n) == FComProverF2_add(y_batch[n].bits[i], ci(n))
        and_res(n) == F2Mul(and1(n)[1], and2(n)[1])
        and_res_batch == [n \in 1..num |-> and_res(n)]
        and_res_mac_batch == FComProver_input(and_res_batch)
    IN  [ci_batch |-> and_res_batch,
         ci_mac_batch |-> and_res_mac_batch,
         z_batch |-> [n \in 1..num |->
             Append(st.z_batch[n], FComProverF2_add(and1(n), y_batch[n].bits[i]))],
         triples |-> st.triples \o [n \in 1..num |->
             <<and1(n), and2(n), MacProver(and_res(n), and_res_mac_batch[n])>>],
         sent |-> Append(st.sent, InputMsg("F2", and_res_batch))]

\* The round with z_i = x_i + y_i, the carry left out of the sum bit.
Prover_add_round_xor_only(x_batch, y_batch, i, st) ==
    LET num == Len(x_batch)
        ci(n) == MacProver(st.ci_batch[n], st.ci_mac_batch[n])
        and1(n) == FComProverF2_add(x_batch[n].bits[i], ci(n))
        and2(n) == FComProverF2_add(y_batch[n].bits[i], ci(n))
        and_res(n) == F2Mul(and1(n)[1], and2(n)[1])
        and_res_batch == [n \in 1..num |-> and_res(n)]
        and_res_mac_batch == FComProver_input(and_res_batch)
    IN  [ci_batch |-> [n \in 1..num |-> F2Add(st.ci_batch[n], and_res(n))],
         ci_mac_batch |-> [n \in 1..num |->
             F2Add(st.ci_mac_batch[n], and_res_mac_batch[n])],
         z_batch |-> [n \in 1..num |->
             Append(st.z_batch[n],
                    FComProverF2_add(x_batch[n].bits[i], y_batch[n].bits[i]))],
         triples |-> st.triples \o [n \in 1..num |->
             <<and1(n), and2(n), MacProver(and_res(n), and_res_mac_batch[n])>>],
         sent |-> Append(st.sent, InputMsg("F2", and_res_batch))]

\* One pass of `for i in 0..m` that inputs the product of each element on
\* its own instead of the batch of them.
Prover_add_round_input_each(x_batch, y_batch, i, st) ==
    LET num == Len(x_batch)
        ci(n) == MacProver(st.ci_batch[n], st.ci_mac_batch[n])
        and1(n) == FComProverF2_add(x_batch[n].bits[i], ci(n))
        and2(n) == FComProverF2_add(y_batch[n].bits[i], ci(n))
        and_res(n) == F2Mul(and1(n)[1], and2(n)[1])
        and_res_batch == [n \in 1..num |-> and_res(n)]
        and_res_mac_batch == FComProver_input(and_res_batch)
    IN  [ci_batch |-> [n \in 1..num |-> F2Add(st.ci_batch[n], and_res(n))],
         ci_mac_batch |-> [n \in 1..num |->
             F2Add(st.ci_mac_batch[n], and_res_mac_batch[n])],
         z_batch |-> [n \in 1..num |->
             Append(st.z_batch[n], FComProverF2_add(and1(n), y_batch[n].bits[i]))],
         triples |-> st.triples \o [n \in 1..num |->
             <<and1(n), and2(n), MacProver(and_res(n), and_res_mac_batch[n])>>],
         sent |-> st.sent \o [n \in 1..num |-> InputMsg("F2", <<and_res(n)>>)]]

\* Prover, one pass of `for i in 0..m` over the whole batch (i counts from 1):
\* and1 = x_i + c, and2 = y_i + c, and_res = and1 * and2 in the clear,
\* z_i = and1 + y_i, next carry c + and_res; one batched input of and_res.
Prover_add_round(x_batch, y_batch, i, st) ==
    LET num == Len(x_batch)
        ci(n) == MacProver(st.ci_batch[n], st.ci_mac_batch[n])
        and1(n) == FComProverF2_add(x_batch[n].bits[i], ci(n))
        and2(n) == FComProverF2_add(y_batch[n].bits[i], ci(n))
        and_res(n) == F2Mul(and1(n)[1], and2(n)[1])
        and_res_batch == [n \in 1..num |-> and_res(n)]
        and_res_mac_batch == FComProver_input(and_res_batch)
    IN  [ci_batch |-> [n \in 1..num |-> F2Add(st.ci_batch[n], and_res(n))],
         ci_mac_batch |-> [n \in 1..num |->
             F2Add(st.ci_mac_batch[n], and_res_mac_batch[n])],
         z_batch |-> [n \in 1..num |->
             Append(st.z_batch[n], FComProverF2_add(and1(n), y_batch[n].bits[i]))],
         triples |-> st.triples \o [n \in 1..num |->
             <<and1(n), and2(n), MacProver(and_res(n), and_res_mac_batch[n])>>],
         sent |-> Append(st.sent, InputMsg("F2", and_res_batch))]

RECURSIVE Prover_add_rounds(_, _, _, _, _)
Prover_add_rounds(x_batch, y_batch, m, i, st) ==
    IF i > m THEN st
    ELSE LET after == {Prover_add_round(x_batch, y_batch, i, st)}
         IN  CHOOSE r \in {Prover_add_rounds(x_batch, y_batch, m, i + 1, next) :
                               next \in after} : TRUE

\* ProverConv::bit_add_carry up to the flush before the triple check: the
\* length test, the input of the zero carries c0, the m rounds.
Prover_bit_add_carry(x_batch, y_batch) ==
    LET num == Len(x_batch) IN
    IF num # Len(y_batch)
    THEN [err |-> "incompatible input vectors in bit_add_carry"]
    ELSE LET m == Len(x_batch[1].bits)
             ci_batch == [n \in 1..num |-> 0]
             st0 == [ci_batch |-> ci_batch,
                     ci_mac_batch |-> FComProver_input(ci_batch),
                     z_batch |-> [n \in 1..num |-> <<>>],
                     triples |-> <<>>,
                     sent |-> <<InputMsg("F2", ci_batch)>>]
         IN  [err |-> "none"] @@ Prover_add_rounds(x_batch, y_batch, m, 1, st0)

\* `res` of ProverConv::bit_add_carry: per element, the sum bits and the carry.
Prover_add_result(st) ==
    [n \in 1..Len(st.z_batch) |->
        <<st.z_batch[n], MacProver(st.ci_batch[n], st.ci_mac_batch[n])>>]

\* One pass of the Verifier that pushes the triples of the batch from the
\* last element to the first.
Verifier_add_round_last_first(x_batch, y_batch, i, st, and_res_mac_batch) ==
    LET num == Len(x_batch)
        and1(n) == FComVerifierF2_add(x_batch[n].bits[i], st.ci_batch[n])
        and2(n) == FComVerifierF2_add(y_batch[n].bits[i], st.ci_batch[n])
    IN  [ci_batch |-> [n \in 1..num |->
             FComVerifierF2_add(st.ci_batch[n], and_res_mac_batch[n])],
         z_batch |-> [n \in 1..num |->
             Append(st.z_batch[n], FComVerifierF2_add(and1(n), y_batch[n].bits[i]))],
         triples |-> st.triples \o [n \in 1..num |->
             <<and1(num + 1 - n), and2(num + 1 - n), and_res_mac_batch[num + 1 - n]>>]]

\* Verifier, one pass of `for i in 0..m`; and_res_mac_batch is what its
\* input_low_level(num) returned.
Verifier_add_round(x_batch, y_batch, i, st, and_res_mac_batch) ==
    LET num == Len(x_batch)
        and1(n) == FComVerifierF2_add(x_batch[n].bits[i], st.ci_batch[n])
        and2(n) == FComVerifierF2_add(y_batch[n].bits[i], st.ci_batch[n])
    IN  [ci_batch |-> [n \in 1..num |->
             FComVerifierF2_add(st.ci_batch[n], and_res_mac_batch[n])],
         z_batch |-> [n \in 1..num |->
             Append(st.z_batch[n], FComVerifierF2_add(and1(n), y_batch[n].bits[i]))],
         triples |-> st.triples \o [n \in 1..num |->
             <<and1(n), and2(n), and_res_mac_batch[n]>>]]

RECURSIVE Verifier_add_rounds(_, _, _, _, _, _)
Verifier_add_rounds(x_batch, y_batch, m, i, st, msgs) ==
    IF i > m THEN st
    ELSE LET after == {Verifier_add_round(x_batch, y_batch, i, st, msgs[i].vals)}
         IN  CHOOSE r \in {Verifier_add_rounds(x_batch, y_batch, m, i + 1, next, msgs) :
                               next \in after} : TRUE

\* The messages VerifierConv::bit_add_carry reads before its triple check:
\* one input of num carries, then one input of num products per bit.
AddInputsReady(queue, num, m) ==
    /\ Len(queue) >= m + 1
    /\ \A k \in 1..(m + 1) :
          /\ queue[k].op = "input"
          /\ queue[k].fld = "F2"
          /\ Len(queue[k].vals) = num

\* VerifierConv::bit_add_carry up to its triple check; msgs are the m + 1
\* input messages it read.
Verifier_bit_add_carry(x_batch, y_batch, msgs) ==
    LET num == Len(x_batch) IN
    IF num # Len(y_batch)
    THEN [err |-> "incompatible input vectors in bit_add_carry"]
    ELSE LET m == Len(x_batch[1].bits)
             st0 == [ci_batch |-> msgs[1].vals,
                     z_batch |-> [n \in 1..num |-> <<>>],
                     triples |-> <<>>]
         IN  [err |-> "none"] @@
             Verifier_add_rounds(x_batch, y_batch, m, 1, st0, Tail(msgs))

Verifier_add_result(st) ==
    [n \in 1..Len(st.z_batch) |-> <<st.z_batch[n], st.ci_batch[n]>>]


(***************************************************************************)
(* Edabits and dabits of the two roles.                                    *)
(***************************************************************************)
\* EdabitsProver { bits, value } honestly committed to the bit vector and
\* the field element given.
EdabitsProver(bits, value) == [bits |-> SeqMap(Commit, bits), value |-> Commit(value)]

\* The Verifier's EdabitsVerifier of the same authenticated values.
EdabitsVerifier(e) == [bits |-> SeqMap(LAMBDA a : a[2], e.bits), value |-> e.value[2]]

DabitProver(bit, value) == [bit |-> Commit(bit), value |-> Commit(value)]

DabitVerifier(d) == [bit |-> d.bit[2], value |-> d.value[2]]

Unset == [err |-> "unset"]

(***************************************************************************)
(* SpecAdd: bit_add_carry on a batch, then the opening of the sums and     *)
(* carries as tests::test_bit_add_carry does.                              *)
(***************************************************************************)
AddShapes == {sh \in (1..MaxAddCells) \X (1..MaxAddCells) : sh[1] * sh[2] <= MaxAddCells}

InitAdd ==
    \E sh \in AddShapes :
    \E xs \in [1..sh[1] -> BitSeqs(sh[2])], ys \in [1..sh[1] -> BitSeqs(sh[2])] :
        LET x_batch == [n \in 1..sh[1] |-> EdabitsProver(xs[n], 0)]
            y_batch == [n \in 1..sh[1] |-> EdabitsProver(ys[n], 0)]
        IN  /\ prover = [pc |-> "add", x_batch |-> x_batch, y_batch |-> y_batch,
                         random_triples |-> <<>>, st |-> Unset, res |-> <<>>,
                         err |-> "none"]
            /\ verifier = [pc |-> "add", x_batch |-> SeqMap(EdabitsVerifier, x_batch),
                           y_batch |-> SeqMap(EdabitsVerifier, y_batch),
                           random_triples |-> <<>>, st |-> Unset, res |-> <<>>,
                           opened |-> <<>>, err |-> "none"]
            /\ toVerifier = <<>>
            /\ toProver = <<>>
            /\ hist = <<>>

\* A bit_add_carry that inputs the carries c0 before it compares the lengths.
P_add_rounds_input_first ==
    /\ prover.pc = "add"
    /\ LET st == Prover_bit_add_carry(prover.x_batch, prover.y_batch) IN
       IF st.err # "none"
       THEN /\ prover' = [prover EXCEPT !.pc = "failed", !.err = st.err]
            /\ toVerifier' = Append(toVerifier,
                    InputMsg("F2", [n \in 1..Len(prover.x_batch) |-> 0]))
       ELSE /\ prover' = [prover EXCEPT !.pc = "add_check", !.st = st]
            /\ toVerifier' = toVerifier \o st.sent
    /\ UNCHANGED <<verifier, toProver>>
    /\ UNCHANGED hist

\* ProverConv::bit_add_carry, lines 240-311: the rounds, each input sent.
P_add_rounds ==
    /\ prover.pc = "add"
    /\ LET st == Prover_bit_add_carry(prover.x_batch, prover.y_batch) IN
       IF st.err # "none"
       THEN /\ prover' = [prover EXCEPT !.pc = "failed", !.err = st.err]
            /\ UNCHANGED toVerifier
       ELSE /\ prover' = [prover EXCEPT !.pc = "add_check", !.st = st]
            /\ toVerifier' = toVerifier \o st.sent
    /\ UNCHANGED <<verifier, toProver>>
    /\ UNCHANGED hist

\* VerifierConv::bit_add_carry, lines 906-963: the rounds, each input read,
\* then the challenge of the triple check sent.
V_add_rounds ==
    /\ verifier.pc = "add"
    /\ IF Len(verifier.x_batch) # Len(verifier.y_batch)
       THEN /\ verifier' = [verifier EXCEPT !.pc = "failed",
                               !.err = "incompatible input vectors in bit_add_carry"]
            /\ UNCHANGED <<toVerifier, toProver>>
       ELSE LET num == Len(verifier.x_batch)
                m == Len(verifier.x_batch[1].bits)
            IN  /\ AddInputsReady(toVerifier, num, m)
                /\ verifier' = [verifier EXCEPT !.pc = "add_check",
                       !.st = Verifier_bit_add_carry(verifier.x_batch, verifier.y_batch,
                                                     SubSeq(toVerifier, 1, m + 1))]
                /\ toVerifier' = SubSeq(toVerifier, m + 2, Len(toVerifier))
                /\ toProver' = Append(toProver,
                                      ChallengeMsg(CheckKind(verifier.random_triples)))
    /\ UNCHANGED prover
    /\ UNCHANGED hist

\* ProverConv::bit_add_carry, lines 312-329: the triple check, the result.
P_add_check ==
    /\ prover.pc = "add_check"
    /\ toProver # <<>>
    /\ Head(toProver) = ChallengeMsg(CheckKind(prover.random_triples))
    /\ toProver' = Tail(toProver)
    /\ toVerifier' = Append(toVerifier, ProofMsg(CheckKind(prover.random_triples)))
    /\ prover' = [prover EXCEPT !.pc = "add_done", !.res = Prover_add_result(prover.st)]
    /\ UNCHANGED verifier
    /\ UNCHANGED hist

\* VerifierConv::bit_add_carry, lines 958-973: the triple check, the result.
V_add_check ==
    /\ verifier.pc = "add_check"
    /\ toVerifier # <<>>
    /\ Head(toVerifier) = ProofMsg(CheckKind(verifier.random_triples))
    /\ toVerifier' = Tail(toVerifier)
    /\ IF TriplesMultiplyF2(verifier.st.triples)
       THEN verifier' = [verifier EXCEPT !.pc = "add_done",
                                         !.res = Verifier_add_result(verifier.st)]
       ELSE verifier' = [verifier EXCEPT !.pc = "failed", !.err = "check_multiply"]
    /\ UNCHANGED <<prover, toProver>>
    /\ UNCHANGED hist

\* tests::test_bit_add_carry, lines 1632-1634: the Prover opens the sum bits
\* and the carry of each element.
P_add_open ==
    /\ prover.pc = "add_done"
    /\ toVerifier' = toVerifier \o Flatten([n \in 1..Len(prover.res) |->
           <<OpenMsg("F2", prover.res[n][1]), OpenMsg("F2", <<prover.res[n][2]>>)>>])
    /\ prover' = [prover EXCEPT !.pc = "opened"]
    /\ UNCHANGED <<verifier, toProver>>
    /\ UNCHANGED hist

\* tests::test_bit_add_carry, lines 1666-1673: the Verifier's opens.
V_add_open ==
    /\ verifier.pc = "add_done"
    /\ LET num == Len(verifier.res) IN
       /\ Len(toVerifier) >= 2 * num
       /\ \A k \in 1..(2 * num) : toVerifier[k].op = "open"
       /\ toVerifier' = SubSeq(toVerifier, 2 * num + 1, Len(toVerifier))
       /\ IF \A n \in 1..num :
                /\ OpenAccepts(toVerifier[2 * n - 1], verifier.res[n][1])
                /\ OpenAccepts(toVerifier[2 * n], <<verifier.res[n][2]>>)
          THEN verifier' = [verifier EXCEPT !.pc = "opened",
                   !.opened = [n \in 1..num |-> [z |-> toVerifier[2 * n - 1].vals,
                                                 c |-> toVerifier[2 * n].vals[1]]]]
          ELSE verifier' = [verifier EXCEPT !.pc = "failed", !.err = "open"]
    /\ UNCHANGED <<prover, toProver>>
    /\ UNCHANGED hist

NextAdd ==
    \/ P_add_rounds
    \/ V_add_rounds
    \/ P_add_check
    \/ V_add_check
    \/ P_add_open
    \/ V_add_open

SpecAdd == InitAdd /\ [][NextAdd]_vars

\* The clear bit vectors of element n of a Prover batch.
ClearBits(e) == SeqMap(LAMBDA a : a[1], e.bits)

Pow2(m) == 2^m

\* C1: bit_add_carry on commitments of x and y returns, for every element of
\* the batch, sum bits and a carry-out that open to (x + y) mod 2^m and to
\* floor((x + y) / 2^m); the Prover's result holds the same clear values
\* with matching macs.
AdderCorrect ==
    /\ verifier.pc = "opened" =>
         \A n \in 1..Len(prover.x_batch) :
            LET m == Len(prover.x_batch[n].bits)
                sum == IntOf(ClearBits(prover.x_batch[n]))
                       + IntOf(ClearBits(prover.y_batch[n]))
            IN  /\ Len(verifier.opened[n].z) = m
                /\ IntOf(verifier.opened[n].z) = sum % Pow2(m)
                /\ verifier.opened[n].c = sum \div Pow2(m)
    /\ prover.pc \in {"add_done", "opened"} =>
         \A n \in 1..Len(prover.x_batch) :
            LET m == Len(prover.x_batch[n].bits)
                sum == IntOf(ClearBits(prover.x_batch[n]))
                       + IntOf(ClearBits(prover.y_batch[n]))
            IN  /\ IntOf(SeqMap(LAMBDA a : a[1], prover.res[n][1])) = sum % Pow2(m)
                /\ prover.res[n][2] = Commit(sum \div Pow2(m))
                /\ \A i \in 1..m : prover.res[n][1][i][1] = prover.res[n][1][i][2]
    /\ verifier.pc # "failed"
    /\ prover.pc # "failed"

\* A batch of two elements whose additions carry out differently, opened.
AdderCorrectWitness ==
    /\ verifier.pc = "opened"
    /\ Len(prover.x_batch) = 2
    /\ Len(prover.x_batch[1].bits) = 3
    /\ verifier.opened[1].c = 1
    /\ verifier.opened[2].c = 0
    /\ IntOf(verifier.opened[1].z) = 5


\* The scenario of C2: one element, x = <<1,1,0,1,0,1>> (43) and
\* y = <<1,0,1,1,1,0>> (29), index 1 the least-significant bit.
SixBitScenario ==
    /\ Len(prover.x_batch) = 1
    /\ ClearBits(prover.x_batch[1]) = <<1, 1, 0, 1, 0, 1>>
    /\ ClearBits(prover.y_batch[1]) = <<1, 0, 1, 1, 1, 0>>

\* C2 as stated: the scenario opens to the sum bits <<0,0,0,0,1,0>> and the
\* carry-out 1.
SixBitAdderAsStated ==
    (SixBitScenario /\ verifier.pc = "opened") =>
        /\ verifier.opened[1].z = <<0, 0, 0, 0, 1, 0>>
        /\ verifier.opened[1].c = 1

\* C2, amended: the scenario opens to the sum bits <<0,0,0,1,0,0>> (43 + 29 =
\* 72 = 64 + 8) and the carry-out 1, and the adder does not fail on it.
SixBitAdder ==
    SixBitScenario =>
        /\ verifier.pc = "opened" =>
              /\ verifier.opened[1].z = <<0, 0, 0, 1, 0, 0>>
              /\ verifier.opened[1].c = 1
        /\ verifier.pc # "failed"

SixBitAdderWitness == SixBitScenario /\ verifier.pc = "opened"


(***************************************************************************)
(* check_parameters.                                                       *)
(***************************************************************************)
\* std::mem::size_of::<usize>() * 8
UsizeBits == 64

RECURSIVE BitLength(_)
BitLength(x) == IF x = 0 THEN 0 ELSE 1 + BitLength(x \div 2)

\* usize::leading_zeros
leading_zeros(x) == UsizeBits - BitLength(x)

log2_floor(x) == UsizeBits - 1 - leading_zeros(x)

Ok == [ok |-> TRUE, err |-> "none"]

Err(msg) == [ok |-> FALSE, err |-> msg]

check_parameters_strict(n, gamma) ==
    IF log2_floor(n + 1) + gamma > NumberOfBitsInBitDecomposition - 1
    THEN Err("Fdabit invalid parameter configuration")
    ELSE Ok

\* A check that accepts every (n, gamma).
check_parameters_accept_all(n, gamma) == Ok

check_parameters(n, gamma) ==
    IF log2_floor(n + 1) + gamma >= NumberOfBitsInBitDecomposition - 1
    THEN Err("Fdabit invalid parameter configuration")
    ELSE Ok

(***************************************************************************)
(* SpecParams: check_parameters applied by each role to (n, gamma).        *)
(***************************************************************************)
InitParams ==
    \E n \in 0..MaxParamN, gamma \in 0..MaxParamGamma :
        /\ prover = [pc |-> "check", n |-> n, gamma |-> gamma, res |-> Unset]
        /\ verifier = [pc |-> "check", n |-> n, gamma |-> gamma, res |-> Unset]
        /\ toVerifier = <<>>
        /\ toProver = <<>>
        /\ hist = <<>>

P_check_parameters ==
    /\ prover.pc = "check"
    /\ prover' = [prover EXCEPT !.pc = "checked",
                                !.res = check_parameters(prover.n, prover.gamma)]
    /\ UNCHANGED <<verifier, toVerifier, toProver>>
    /\ UNCHANGED hist

V_check_parameters ==
    /\ verifier.pc = "check"
    /\ verifier' = [verifier EXCEPT !.pc = "checked",
                                    !.res = check_parameters(verifier.n, verifier.gamma)]
    /\ UNCHANGED <<prover, toVerifier, toProver>>
    /\ UNCHANGED hist

NextParams == P_check_parameters \/ V_check_parameters

SpecParams == InitParams /\ [][NextParams]_vars

\* floor(log2(x)) for x >= 1 and ceil(log2(x)) for x >= 1, by their definitions.
FloorLog2(x) == CHOOSE k \in 0..x : 2^k <= x /\ x < 2^(k + 1)

CeilLog2(x) == CHOOSE k \in 0..x : x <= 2^k /\ (k = 0 \/ 2^(k - 1) < x)

\* C9: check_parameters(n, gamma) returns an error exactly when
\* floor(log2(n+1)) + gamma >= ceil(log2(p)) - 1, and Ok otherwise, on both
\* roles.
ParameterCheckComplete ==
    \A role \in {prover, verifier} :
        role.pc = "checked" =>
            (role.res.ok <=> ~(FloorLog2(role.n + 1) + role.gamma >= CeilLog2(P) - 1))

\* Both outcomes, at the boundary: n + 1 = 4 with gamma = 2 is rejected,
\* n + 1 = 3 with gamma = 2 is accepted (in the field of 5 bits).
ParameterCheckCompleteWitness ==
    /\ prover.pc = "checked"
    /\ verifier.pc = "checked"
    /\ FloorLog2(prover.n + 1) + prover.gamma = CeilLog2(P) - 1
    /\ ~prover.res.ok
    /\ prover.n > 0

(***************************************************************************)
(* convert_bit_2_field.                                                    *)
(***************************************************************************)
\* ConditionallySelectable::conditional_select(a, b, choice): b when choice.
conditional_select(a, b, choice) == IF choice THEN b ELSE a

\* ProverConv::convert_bit_2_field, the second loop, for the opened c.
Prover_x_m_swapped(c_mac, r) ==
    LET c == c_mac[1]
        c_m == f2_to_fe(c)
        choice == (c = 1)
        beq == FComProver_affine_add_cst(c_m, FComProver_neg(r.value))
        bneq == FComProver_affine_add_cst(c_m, r.value)
    IN  conditional_select(beq, bneq, choice)

Prover_x_m(c_mac, r) ==
    LET c == c_mac[1]
        c_m == f2_to_fe(c)
        choice == (c = 1)
        beq == FComProver_affine_add_cst(c_m, FComProver_neg(r.value))
        bneq == FComProver_affine_add_cst(c_m, r.value)
    IN  conditional_select(bneq, beq, choice)

Prover_convert_bit_2_field(r_batch, x_batch) ==
    LET n == Len(r_batch)
        c_batch == [i \in 1..n |-> FComProverF2_add(r_batch[i].bit, x_batch[i])]
    IN  [c_batch |-> c_batch,
         x_m_batch |-> [i \in 1..n |-> Prover_x_m(c_batch[i], r_batch[i])],
         sent |-> <<OpenMsg("F2", c_batch)>>]

\* VerifierConv::convert_bit_2_field, the second loop, for the opened c.
Verifier_x_m(c, r) ==
    LET c_m == f2_to_fe(c)
        choice == (c = 1)
        beq == FComVerifier_affine_add_cst(c_m, FComVerifier_neg(r.value))
        bneq == FComVerifier_affine_add_cst(c_m, r.value)
    IN  conditional_select(bneq, beq, choice)

\* VerifierConv::convert_bit_2_field; msg is the open message read.
Verifier_convert_bit_2_field(r_batch, x_batch, msg) ==
    LET n == Len(r_batch)
        r_mac_plus_x_mac == [i \in 1..n |-> FComVerifierF2_add(r_batch[i].bit, x_batch[i])]
    IN  IF ~OpenAccepts(msg, r_mac_plus_x_mac)
        THEN [err |-> "open"]
        ELSE [err |-> "none",
              c_batch |-> msg.vals,
              x_m_batch |-> [i \in 1..n |-> Verifier_x_m(msg.vals[i], r_batch[i])]]

(***************************************************************************)
(* SpecCb2f: convert_bit_2_field on a batch of dabits and bits, then the   *)
(* opening of the outputs as tests::test_convert_bit_2_field does.         *)
(***************************************************************************)
\* The field values a dabit is given: the lift of its bit, and others.
DabitValues == {0, 1, 2, P - 1}

InitCb2f ==
    \E n \in 1..MaxCbBatch :
    \E rb \in BitSeqs(n), x \in BitSeqs(n), rv \in [1..n -> DabitValues] :
        LET r_batch == [i \in 1..n |-> DabitProver(rb[i], rv[i])]
            x_batch == [i \in 1..n |-> Commit(x[i])]
        IN  /\ prover = [pc |-> "convert", r_batch |-> r_batch, x_batch |-> x_batch,
                         c_batch |-> <<>>, x_m_batch |-> <<>>, err |-> "none"]
            /\ verifier = [pc |-> "convert", r_batch |-> SeqMap(DabitVerifier, r_batch),
                           x_batch |-> SeqMap(LAMBDA a : a[2], x_batch),
                           c_batch |-> <<>>, x_m_batch |-> <<>>, x_m |-> <<>>,
                           err |-> "none"]
            /\ toVerifier = <<>>
            /\ toProver = <<>>
            /\ hist = <<>>

P_convert_bit_2_field ==
    /\ prover.pc = "convert"
    /\ LET st == Prover_convert_bit_2_field(prover.r_batch, prover.x_batch) IN
       /\ prover' = [prover EXCEPT !.pc = "converted", !.c_batch = st.c_batch,
                                   !.x_m_batch = st.x_m_batch]
       /\ toVerifier' = toVerifier \o st.sent
    /\ UNCHANGED <<verifier, toProver>>
    /\ UNCHANGED hist

V_convert_bit_2_field ==
    /\ verifier.pc = "convert"
    /\ toVerifier # <<>>
    /\ Head(toVerifier).op = "open"
    /\ LET st == Verifier_convert_bit_2_field(verifier.r_batch, verifier.x_batch,
                                              Head(toVerifier))
       IN  IF st.err # "none"
           THEN verifier' = [verifier EXCEPT !.pc = "failed", !.err = st.err]
           ELSE verifier' = [verifier EXCEPT !.pc = "converted",
                    !.c_batch = st.c_batch, !.x_m_batch = st.x_m_batch]
    /\ toVerifier' = Tail(toVerifier)
    /\ UNCHANGED <<prover, toProver>>
    /\ UNCHANGED hist

\* tests::test_convert_bit_2_field, line 1527: the Prover opens x_m_batch.
P_cb2f_open ==
    /\ prover.pc = "converted"
    /\ toVerifier' = Append(toVerifier, OpenMsg("FE", prover.x_m_batch))
    /\ prover' = [prover EXCEPT !.pc = "opened"]
    /\ UNCHANGED <<verifier, toProver>>
    /\ UNCHANGED hist

\* tests::test_convert_bit_2_field, lines 1564-1568: the Verifier's open.
V_cb2f_open ==
    /\ verifier.pc = "converted"
    /\ toVerifier # <<>>
    /\ Head(toVerifier).op = "open"
    /\ Head(toVerifier).fld = "FE"
    /\ IF OpenAccepts(Head(toVerifier), verifier.x_m_batch)
       THEN verifier' = [verifier EXCEPT !.pc = "opened", !.x_m = Head(toVerifier).vals]
       ELSE verifier' = [verifier EXCEPT !.pc = "failed", !.err = "open"]
    /\ toVerifier' = Tail(toVerifier)
    /\ UNCHANGED <<prover, toProver>>
    /\ UNCHANGED hist

NextCb2f ==
    \/ P_convert_bit_2_field
    \/ V_convert_bit_2_field
    \/ P_cb2f_open
    \/ V_cb2f_open

SpecCb2f == InitCb2f /\ [][NextCb2f]_vars

DabitConsistent(d) == d.value = Commit(f2_to_fe(d.bit[1])) /\ d.bit[1] = d.bit[2]

\* C6: for consistent dabits the output x_m opens to lift(x), and the
\* Prover's clear x_m is the value the Verifier opens; for any dabit, with
\* d = rb + x opened, x_m is D.value when d = 0 and 1 - D.value when d = 1.
ConvertBitCorrect ==
    /\ verifier.pc # "failed"
    /\ prover.pc \in {"converted", "opened"} =>
         \A i \in 1..Len(prover.r_batch) :
            LET D == prover.r_batch[i]
                d == F2Add(D.bit[1], prover.x_batch[i][1])
            IN  /\ prover.c_batch[i][1] = d
                /\ prover.x_m_batch[i][1] = prover.x_m_batch[i][2]
                /\ d = 0 => prover.x_m_batch[i][1] = D.value[1]
                /\ d = 1 => prover.x_m_batch[i][1] = (1 + P - D.value[1]) % P
                /\ DabitConsistent(D) =>
                      prover.x_m_batch[i][1] = f2_to_fe(prover.x_batch[i][1])
    /\ verifier.pc = "opened" =>
         \A i \in 1..Len(prover.r_batch) :
            /\ verifier.x_m[i] = prover.x_m_batch[i][1]
            /\ verifier.c_batch[i] = F2Add(prover.r_batch[i].bit[1], prover.x_batch[i][1])
            /\ DabitConsistent(prover.r_batch[i]) =>
                  verifier.x_m[i] = f2_to_fe(prover.x_batch[i][1])

\* Consistent dabits with both values of d and both values of x, opened.
ConvertBitCorrectWitness ==
    /\ verifier.pc = "opened"
    /\ Len(prover.r_batch) = 2
    /\ \A i \in 1..2 : DabitConsistent(prover.r_batch[i])
    /\ verifier.c_batch = <<0, 1>>
    /\ prover.r_batch[1].bit[1] = 1
    /\ prover.r_batch[2].bit[1] = 1
    /\ verifier.x_m = <<1, 0>>


(***************************************************************************)
(* fdabit.                                                                 *)
(*                                                                         *)
(* The s repetitions are independent of each other: repetition k reads     *)
(* only its own padding row c[k] and challenge row e[k].  The model runs   *)
(* the repetitions one at a time (Fdabit_row), each with its row of        *)
(* padding bits and of challenge bits drawn when it runs, and keeps the    *)
(* conjunction `res`; the batched inputs and opens of the s rows are the   *)
(* sized messages of the commit step and the row steps.                    *)
(***************************************************************************)
FDABIT_SECURITY_PARAMETER == 38

\* num_bits - (n + 1).leading_zeros() - 1 + 1
fdabit_gamma(n) == UsizeBits - leading_zeros(n + 1) - 1 + 1

\* A batched input whose values are drawn by the row steps.
InputSized(fld, size) == [op |-> "input", fld |-> fld, size |-> size]

SeedMsg == [op |-> "seed"]

\* Step 4 on the Prover: r = c1 + sum_i e[i] * dabits[i].bit.
RECURSIVE Prover_r_loop(_, _, _, _)
Prover_r_loop(dabits, e_row, i, r) ==
    IF i > Len(dabits) THEN r
    ELSE LET after == {FComProverF2_add(r,
                          FComProverF2_affine_mult_cst(e_row[i], dabits[i].bit))}
         IN  CHOOSE out \in {Prover_r_loop(dabits, e_row, i + 1, next) :
                                 next \in after} : TRUE

\* Step 6 on the Prover: r' = sum_i lift(e[i]) * dabits[i].value.
RECURSIVE Prover_r_prime_loop(_, _, _, _)
Prover_r_prime_loop(dabits, e_row, i, r_prime) ==
    IF i > Len(dabits) THEN r_prime
    ELSE LET after == {FComProver_add(r_prime,
                          FComProver_affine_mult_cst(f2_to_fe(e_row[i]), dabits[i].value))}
         IN  CHOOSE out \in {Prover_r_prime_loop(dabits, e_row, i + 1, next) :
                                 next \in after} : TRUE

\* Step 7 on the Prover: tau = r' + sum_i twos * c_m[i], twos doubling from 1.
RECURSIVE Prover_tau_loop_no_doubling(_, _, _, _)
Prover_tau_loop_no_doubling(c_m, i, twos, tau) ==
    IF i > Len(c_m) THEN tau
    ELSE LET after == {FComProver_add(tau, FComProver_affine_mult_cst(twos, c_m[i]))}
         IN  CHOOSE out \in {Prover_tau_loop_no_doubling(c_m, i + 1, twos, next) :
                                 next \in after} : TRUE

RECURSIVE Prover_tau_loop(_, _, _, _)
Prover_tau_loop(c_m, i, twos, tau) ==
    IF i > Len(c_m) THEN tau
    ELSE LET after == {<<FEAdd(twos, twos),
                          FComProver_add(tau, FComProver_affine_mult_cst(twos, c_m[i]))>>}
         IN  CHOOSE out \in {Prover_tau_loop(c_m, i + 1, next[1], next[2]) :
                                 next \in after} : TRUE

\* Steps 1, 2, 4, 6, 7 and 8 of ProverConv::fdabit for one repetition k: bs
\* are the gamma random padding bits of the row, e_row its challenge bits.
Prover_fdabit_row(dabits, bs, e_row) ==
    LET gamma == Len(bs)
        c_m_clr == [i \in 1..gamma |-> f2_to_fe(bs[i])]
        c_m_mac == FComProver_input(c_m_clr)
        c_m == [i \in 1..gamma |-> MacProver(c_m_clr[i], c_m_mac[i])]
        c1 == IF c_m_clr[1] = 0 THEN 0 ELSE 1
        c1_mac == FComProver_input(<<c1>>)[1]
        one_minus_ci(i) == FComProver_affine_add_cst(1,
                               FComProver_affine_mult_cst(FENeg(1), c_m[i]))
        and_res == [i \in 1..gamma |-> FEMul(c_m_clr[i], one_minus_ci(i)[1])]
        and_res_mac == FComProver_input(and_res)
        r == Prover_r_loop(dabits, e_row, 1, MacProver(c1, c1_mac))
        r_prime == Prover_r_prime_loop(dabits, e_row, 1, MacProver(0, 0))
        tau == Prover_tau_loop(c_m, 1, 1, r_prime)
    IN  [c_m_mac |-> c_m_mac,
         c1_mac |-> c1_mac,
         and_res_mac |-> and_res_mac,
         triples |-> [i \in 1..gamma |->
             <<c_m[i], one_minus_ci(i), MacProver(and_res[i], and_res_mac[i])>>],
         r |-> r,
         tau |-> tau,
         b |-> ((r[1] = 1) = LowBit(tau[1]))]

\* Step 4 on the Verifier.
RECURSIVE Verifier_r_loop(_, _, _, _)
Verifier_r_loop(dabits_mac, e_row, i, r_mac) ==
    IF i > Len(dabits_mac) THEN r_mac
    ELSE LET after == {FComVerifierF2_add(r_mac,
                          FComVerifierF2_affine_mult_cst(e_row[i], dabits_mac[i].bit))}
         IN  CHOOSE out \in {Verifier_r_loop(dabits_mac, e_row, i + 1, next) :
                                 next \in after} : TRUE

\* Step 6 on the Verifier.
RECURSIVE Verifier_r_prime_loop(_, _, _, _)
Verifier_r_prime_loop(dabits_mac, e_row, i, r_prime_mac) ==
    IF i > Len(dabits_mac) THEN r_prime_mac
    ELSE LET after == {FComVerifier_add(r_prime_mac,
                          FComVerifier_affine_mult_cst(f2_to_fe(e_row[i]),
                                                       dabits_mac[i].value))}
         IN  CHOOSE out \in {Verifier_r_prime_loop(dabits_mac, e_row, i + 1, next) :
                                 next \in after} : TRUE

\* Step 7 on the Verifier.
RECURSIVE Verifier_tau_loop(_, _, _, _)
Verifier_tau_loop(c_m_mac, i, twos, tau_mac) ==
    IF i > Len(c_m_mac) THEN tau_mac
    ELSE LET after == {<<FEAdd(twos, twos),
                          FComVerifier_add(tau_mac,
                              FComVerifier_affine_mult_cst(twos, c_m_mac[i]))>>}
         IN  CHOOSE out \in {Verifier_tau_loop(c_m_mac, i + 1, next[1], next[2]) :
                                 next \in after} : TRUE

\* quicksilver_check_multiply over FE on the Verifier.
TriplesMultiplyFE(triples) == \A k \in 1..Len(triples) :
    triples[k][3] = FEMul(triples[k][1], triples[k][2])

\* Step 8 on the Verifier for one repetition.
Verifier_step8_accept_all(r_open, tau_open) == TRUE

Verifier_step8(r_open, tau_open) == (r_open = 1) = LowBit(tau_open)

\* Steps 1, 2, 4 to 8 of VerifierConv::fdabit for one repetition k; row holds
\* the macs its inputs returned, r_open and tau_open the values its opens read.
Verifier_fdabit_row(dabits_mac, row, e_row, r_open, tau_open) ==
    LET gamma == Len(row.c_m_mac)
        one_minus_ci_mac(i) == FComVerifier_affine_add_cst(1,
                                   FComVerifier_affine_mult_cst(FENeg(1), row.c_m_mac[i]))
        triples == [i \in 1..gamma |->
                       <<row.c_m_mac[i], one_minus_ci_mac(i), row.and_res_mac[i]>>]
        r_mac == Verifier_r_loop(dabits_mac, e_row, 1, row.c1_mac)
        r_prime_mac == Verifier_r_prime_loop(dabits_mac, e_row, 1, 0)
        tau_mac == Verifier_tau_loop(row.c_m_mac, 1, 1, r_prime_mac)
    IN  [err |-> IF OpenAccepts([vals |-> <<r_open>>], <<r_mac>>)
                    /\ OpenAccepts([vals |-> <<tau_open>>], <<tau_mac>>)
                 THEN "none" ELSE "open",
         triples_ok |-> TriplesMultiplyFE(triples),
         b |-> Verifier_step8(r_open, tau_open)]

\* The debug_assert of ProverConv::fdabit, lines 444-450.
ProverDabitsNotFaulty(dabits) == \A i \in 1..Len(dabits) :
    \/ dabits[i].bit[1] = 0 /\ dabits[i].value[1] = 0
    \/ dabits[i].bit[1] = 1 /\ dabits[i].value[1] = 1

\* A Prover that makes the inputs of step 1 before it checks the
\* parameters.
P_fdabit_commit_inputs_first ==
    /\ prover.pc = "fdabit"
    /\ LET s == FDABIT_SECURITY_PARAMETER
           n == Len(prover.dabits)
           gamma == fdabit_gamma(n)
           chk == check_parameters(n, gamma)
       IN  IF ~chk.ok
           THEN /\ prover' = [prover EXCEPT !.pc = "failed", !.err = chk.err]
                /\ toVerifier' = toVerifier \o [k \in 1..s |-> InputSized("FE", gamma)]
           ELSE IF prover.debug /\ ~ProverDabitsNotFaulty(prover.dabits)
           THEN /\ prover' = [prover EXCEPT !.pc = "panicked"]
                /\ UNCHANGED toVerifier
           ELSE /\ prover' = [prover EXCEPT !.pc = "fd_seed", !.k = 0, !.fd_res = TRUE]
                /\ toVerifier' = toVerifier
                       \o [k \in 1..s |-> InputSized("FE", gamma)]
                       \o <<InputSized("F2", s), InputSized("FE", s * gamma)>>
    /\ UNCHANGED <<verifier, toProver>>
    /\ UNCHANGED hist

\* ProverConv::fdabit, lines 434-512: the parameter check, the assertion of
\* debug builds, the inputs of steps 1 and 2.
P_fdabit_commit ==
    /\ prover.pc = "fdabit"
    /\ LET s == FDABIT_SECURITY_PARAMETER
           n == Len(prover.dabits)
           gamma == fdabit_gamma(n)
           chk == check_parameters(n, gamma)
       IN  IF ~chk.ok
           THEN /\ prover' = [prover EXCEPT !.pc = "failed", !.err = chk.err]
                /\ UNCHANGED toVerifier
           ELSE IF prover.debug /\ ~ProverDabitsNotFaulty(prover.dabits)
           THEN /\ prover' = [prover EXCEPT !.pc = "panicked"]
                /\ UNCHANGED toVerifier
           ELSE /\ prover' = [prover EXCEPT !.pc = "fd_seed", !.k = 0, !.fd_res = TRUE]
                /\ toVerifier' = toVerifier
                       \o [k \in 1..s |-> InputSized("FE", gamma)]
                       \o <<InputSized("F2", s), InputSized("FE", s * gamma)>>
    /\ UNCHANGED <<verifier, toProver>>
    /\ UNCHANGED hist

\* A Verifier that draws and sends the challenge seed after the parameter
\* check, before it reads the inputs of steps 1 and 2.
V_fdabit_challenge_seed_first ==
    /\ verifier.pc = "fdabit"
    /\ LET n == Len(verifier.dabits)
           chk == check_parameters(n, fdabit_gamma(n))
       IN  IF ~chk.ok
           THEN /\ verifier' = [verifier EXCEPT !.pc = "failed", !.err = chk.err]
                /\ UNCHANGED <<toVerifier, toProver>>
           ELSE /\ toProver' = Append(toProver, SeedMsg)
                /\ verifier' = [verifier EXCEPT !.pc = "fd_rows", !.k = 0, !.fd_res = TRUE,
                                                !.triples_ok = TRUE]
                /\ UNCHANGED toVerifier
    /\ UNCHANGED prover
    /\ UNCHANGED hist

\* VerifierConv::fdabit, lines 1059-1106: the parameter check, the inputs of
\* steps 1 and 2 read, the challenge seed drawn, written and flushed.
V_fdabit_challenge ==
    /\ verifier.pc = "fdabit"
    /\ LET s == FDABIT_SECURITY_PARAMETER
           n == Len(verifier.dabits)
           gamma == fdabit_gamma(n)
           chk == check_parameters(n, gamma)
       IN  IF ~chk.ok
           THEN /\ verifier' = [verifier EXCEPT !.pc = "failed", !.err = chk.err]
                /\ UNCHANGED <<toVerifier, toProver>>
           ELSE /\ Len(toVerifier) >= s + 2
                /\ \A k \in 1..s : toVerifier[k] = InputSized("FE", gamma)
                /\ toVerifier[s + 1] = InputSized("F2", s)
                /\ toVerifier[s + 2] = InputSized("FE", s * gamma)
                /\ toVerifier' = SubSeq(toVerifier, s + 3, Len(toVerifier))
                /\ toProver' = Append(toProver, SeedMsg)
                /\ verifier' = [verifier EXCEPT !.pc = "fd_rows", !.k = 0, !.fd_res = TRUE,
                                                !.triples_ok = TRUE]
    /\ UNCHANGED prover
    /\ UNCHANGED hist

\* ProverConv::fdabit, lines 513-521: the seed read.
P_fdabit_seed ==
    /\ prover.pc = "fd_seed"
    /\ toProver # <<>>
    /\ Head(toProver) = SeedMsg
    /\ toProver' = Tail(toProver)
    /\ prover' = [prover EXCEPT !.pc = "fd_rows"]
    /\ UNCHANGED <<verifier, toVerifier>>
    /\ UNCHANGED hist

\* What one repetition leaves behind on the two roles, for padding bits bs
\* and challenge bits e_row: each role's b of step 8, the Verifier's error
\* and the soundness of its step-2 triples; hit tells whether the challenge
\* took the dabit at position flipped.
Fdabit_row_outcome(dabits, dabits_mac, bs, e_row, flipped) ==
    CHOOSE o \in
        {[p_b |-> pv[1].b, v_b |-> pv[2].b, v_err |-> pv[2].err,
          v_triples_ok |-> pv[2].triples_ok,
          hit |-> (flipped # 0 /\ e_row[flipped] = 1)] :
            pv \in {<<p, Verifier_fdabit_row(dabits_mac, p, e_row, p.r[1], p.tau[1])>> :
                        p \in {Prover_fdabit_row(dabits, bs, e_row)}}} : TRUE

\* Repetition k of both roles: ProverConv::fdabit lines 455-509 and 524-592,
\* VerifierConv::fdabit lines 1071-1101 and 1117-1169, for one k.
Fdabit_row ==
    /\ prover.pc = "fd_rows"
    /\ verifier.pc = "fd_rows"
    /\ prover.k < FDABIT_SECURITY_PARAMETER
    /\ \E o \in {Fdabit_row_outcome(prover.dabits, verifier.dabits, bs, e_row,
                                     hist.flipped) :
                      bs \in BitSeqs(fdabit_gamma(Len(prover.dabits))),
                      e_row \in BitSeqs(Len(prover.dabits))} :
          /\ prover' = [prover EXCEPT !.k = @ + 1, !.fd_res = @ /\ o.p_b]
          /\ verifier' = [verifier EXCEPT
                 !.pc = IF o.v_err = "none" THEN @ ELSE "failed",
                 !.err = o.v_err,
                 !.k = @ + 1,
                 !.fd_res = @ /\ o.v_b,
                 !.triples_ok = @ /\ o.v_triples_ok]
          /\ hist' = [hist EXCEPT !.hit = @ \/ o.hit]
    /\ UNCHANGED <<toVerifier, toProver>>

\* VerifierConv::fdabit, lines 1170-1171: the triple check begins.
V_fdabit_check ==
    /\ verifier.pc = "fd_rows"
    /\ verifier.k = FDABIT_SECURITY_PARAMETER
    /\ verifier' = [verifier EXCEPT !.pc = "fd_check"]
    /\ toProver' = Append(toProver, ChallengeMsg("quicksilver"))
    /\ UNCHANGED <<prover, toVerifier>>
    /\ UNCHANGED hist

\* The triple check, then success whatever res holds.
P_fdabit_finish_ignores_res ==
    /\ prover.pc = "fd_rows"
    /\ prover.k = FDABIT_SECURITY_PARAMETER
    /\ toProver # <<>>
    /\ Head(toProver) = ChallengeMsg("quicksilver")
    /\ toProver' = Tail(toProver)
    /\ toVerifier' = Append(toVerifier, ProofMsg("quicksilver"))
    /\ prover' = [prover EXCEPT !.pc = "fd_done"]
    /\ UNCHANGED verifier
    /\ UNCHANGED hist

\* ProverConv::fdabit, lines 593-600: the triple check, then the verdict.
P_fdabit_finish ==
    /\ prover.pc = "fd_rows"
    /\ prover.k = FDABIT_SECURITY_PARAMETER
    /\ toProver # <<>>
    /\ Head(toProver) = ChallengeMsg("quicksilver")
    /\ toProver' = Tail(toProver)
    /\ toVerifier' = Append(toVerifier, ProofMsg("quicksilver"))
    /\ prover' = IF prover.fd_res
                 THEN [prover EXCEPT !.pc = "fd_done"]
                 ELSE [prover EXCEPT !.pc = "failed", !.err = "fail fdabit prover"]
    /\ UNCHANGED verifier
    /\ UNCHANGED hist

\* The verdict of step 8 looked at before the result of the triple check.
V_fdabit_finish_res_first ==
    /\ verifier.pc = "fd_check"
    /\ toVerifier # <<>>
    /\ Head(toVerifier) = ProofMsg("quicksilver")
    /\ toVerifier' = Tail(toVerifier)
    /\ verifier' = IF ~verifier.fd_res
                   THEN [verifier EXCEPT !.pc = "failed", !.err = "fail fdabit verifier"]
                   ELSE IF ~verifier.triples_ok
                   THEN [verifier EXCEPT !.pc = "failed", !.err = "check_multiply"]
                   ELSE [verifier EXCEPT !.pc = "fd_done"]
    /\ UNCHANGED <<prover, toProver>>
    /\ UNCHANGED hist

\* VerifierConv::fdabit, lines 1170-1177: the triple check, then the verdict.
V_fdabit_finish ==
    /\ verifier.pc = "fd_check"
    /\ toVerifier # <<>>
    /\ Head(toVerifier) = ProofMsg("quicksilver")
    /\ toVerifier' = Tail(toVerifier)
    /\ verifier' = IF ~verifier.triples_ok
                   THEN [verifier EXCEPT !.pc = "failed", !.err = "check_multiply"]
                   ELSE IF verifier.fd_res
                   THEN [verifier EXCEPT !.pc = "fd_done"]
                   ELSE [verifier EXCEPT !.pc = "failed", !.err = "fail fdabit verifier"]
    /\ UNCHANGED <<prover, toProver>>
    /\ UNCHANGED hist

(***************************************************************************)
(* SpecFdabit: fdabit on a batch of dabits, honest or with the field value *)
(* of one dabit flipped, in a debug or a release build.                    *)
(***************************************************************************)
\* The dabit of bit b, its value flipped when flip holds.
DabitOf(b, flip) == DabitProver(b, IF flip THEN 1 - f2_to_fe(b) ELSE f2_to_fe(b))

InitFdabit ==
    \E n \in 0..MaxDabits :
    \E bits \in BitSeqs(n), flipped \in 0..n, debug \in BOOLEAN :
        LET dabits == [i \in 1..n |-> DabitOf(bits[i], i = flipped)]
        IN  /\ prover = [pc |-> "fdabit", dabits |-> dabits, debug |-> debug,
                         k |-> 0, fd_res |-> TRUE, err |-> "none"]
            /\ verifier = [pc |-> "fdabit", dabits |-> SeqMap(DabitVerifier, dabits),
                           k |-> 0, fd_res |-> TRUE, triples_ok |-> TRUE, err |-> "none"]
            /\ toVerifier = <<>>
            /\ toProver = <<>>
            /\ hist = [flipped |-> flipped, hit |-> FALSE]

NextFdabit ==
    \/ P_fdabit_commit
    \/ V_fdabit_challenge
    \/ P_fdabit_seed
    \/ Fdabit_row
    \/ V_fdabit_check
    \/ P_fdabit_finish
    \/ V_fdabit_finish

SpecFdabit == InitFdabit /\ [][NextFdabit]_vars

\* The batch passes the parameter check with the gamma fdabit derives.
PassesParameterCheck(n) ==
    FloorLog2(n + 1) + (FloorLog2(n + 1) + 1) < CeilLog2(P) - 1

\* C7: on a batch of honest dabits that passes the parameter check, whatever
\* the padding and the challenge, no repetition disagrees (r_k is the low bit
\* of tau_k), no check fails on either role, and a role that finished
\* returned success.
FdabitComplete ==
    (hist.flipped = 0 /\ PassesParameterCheck(Len(prover.dabits))) =>
        /\ prover.fd_res /\ verifier.fd_res /\ verifier.triples_ok
        /\ prover.pc \notin {"failed", "panicked"}
        /\ verifier.pc # "failed"

\* Two honest dabits, all 38 repetitions run, success on both roles.
FdabitCompleteWitness ==
    /\ hist.flipped = 0
    /\ Len(prover.dabits) = 2
    /\ prover.k = FDABIT_SECURITY_PARAMETER
    /\ prover.pc = "fd_done"
    /\ verifier.pc = "fd_done"

\* C8: with one dabit's field value flipped (value = 1 - lift(bit)), as soon
\* as a challenge coefficient of that dabit is 1 the verdict of both roles is
\* failure; fdabit returns success on neither role unless all s coefficients
\* of that dabit were 0.
FdabitDetectsFlip ==
    hist.flipped # 0 =>
        /\ hist.hit => (~prover.fd_res /\ ~verifier.fd_res)
        /\ hist.hit => (prover.pc # "fd_done" /\ verifier.pc # "fd_done")
        /\ (verifier.pc = "failed" /\ PassesParameterCheck(Len(prover.dabits)))
              => (hist.hit /\ verifier.err = "fail fdabit verifier")

\* A flipped dabit among two, hit by a challenge, rejected by the Verifier.
FdabitDetectsFlipWitness ==
    /\ hist.flipped = 2
    /\ hist.hit
    /\ verifier.pc = "failed"
    /\ verifier.err = "fail fdabit verifier"
    /\ prover.pc = "failed"
    /\ prover.err = "fail fdabit prover"


(***************************************************************************)
(* generate_permutation and the shuffle of the three pools.                *)
(*                                                                         *)
(* AesRng is a deterministic generator: a state, set from the seed, and a  *)
(* step that yields the next output and the next state.                    *)
(***************************************************************************)
AesRng_from_seed(seed) == seed

RngStep(rng) == (rng * 13 + 7) % 64

\* rng.gen_range(0..i): a value in 0..i-1, the generator advanced.
gen_range(rng, i) == [rng |-> RngStep(rng), idx |-> (RngStep(rng) \div 4) % i]

\* v[b] = v[a] in place of the swap: the element at b is lost.
Swap_overwriting(v, a, b) == [k \in 1..Len(v) |-> IF k = b + 1 THEN v[a + 1] ELSE v[k]]

\* v.swap(a, b), indices counted from 0.
Swap(v, a, b) ==
    [k \in 1..Len(v) |-> IF k = a + 1 THEN v[b + 1]
                         ELSE IF k = b + 1 THEN v[a + 1]
                         ELSE v[k]]

\* The loop `while i > 0` of generate_permutation.
RECURSIVE permutation_loop(_, _, _)
permutation_loop(rng, v, i) ==
    IF i > 0
    THEN LET drawn == {gen_range(rng, i)}
         IN  CHOOSE out \in {permutation_loop(g.rng, Swap(v, g.idx, i), i - 1) :
                                 g \in drawn} : TRUE
    ELSE [rng |-> rng, v |-> v]

generate_permutation(rng, v) ==
    IF Len(v) = 0 THEN [rng |-> rng, v |-> v]
    ELSE permutation_loop(rng, v, Len(v) - 1)

\* Steps 3 and 4 of ProverConv::conv: the generator seeded, the three pools
\* shuffled with it in turn.
Prover_shuffle(seed, r, dabits, random_triples) ==
    LET s1 == generate_permutation(AesRng_from_seed(seed), r)
        s2 == generate_permutation(s1.rng, dabits)
        s3 == generate_permutation(s2.rng, random_triples)
    IN  [r |-> s1.v, dabits |-> s2.v, random_triples |-> s3.v]

\* Steps 3 and 4 of VerifierConv::conv.
Verifier_shuffle_dabits_first(seed, r_mac, dabits_mac, random_triples) ==
    LET s1 == generate_permutation(AesRng_from_seed(seed), dabits_mac)
        s2 == generate_permutation(s1.rng, r_mac)
        s3 == generate_permutation(s2.rng, random_triples)
    IN  [r |-> s2.v, dabits |-> s1.v, random_triples |-> s3.v]

Verifier_shuffle(seed, r_mac, dabits_mac, random_triples) ==
    LET s1 == generate_permutation(AesRng_from_seed(seed), r_mac)
        s2 == generate_permutation(s1.rng, dabits_mac)
        s3 == generate_permutation(s2.rng, random_triples)
    IN  [r |-> s1.v, dabits |-> s2.v, random_triples |-> s3.v]

\* The positions of a pool, to follow where a shuffle sends each of them.
Positions(v) == [k \in 1..Len(v) |-> k]

(***************************************************************************)
(* The random pools.  FCom.random hands the Prover a bit with its mac and  *)
(* the Verifier the matching key; `tape` holds the bits it hands out.      *)
(***************************************************************************)
\* ProverConv::random_edabits; bad is the position of an edabit whose value
\* a cheating Prover inputs wrong (0 for none).
Prover_random_edabits(tape_r, bad) ==
    LET num == Len(tape_r)
        aux_r_m == [i \in 1..num |->
                       IF i = bad THEN FEAdd(convert_bits_to_field(tape_r[i]), 1)
                       ELSE convert_bits_to_field(tape_r[i])]
        aux_r_m_mac == FComProver_input(aux_r_m)
    IN  [edabits_vec |-> [i \in 1..num |->
             [bits |-> SeqMap(Commit, tape_r[i]),
              value |-> MacProver(aux_r_m[i], aux_r_m_mac[i])]],
         sent |-> <<InputMsg("FE", aux_r_m)>>]

\* VerifierConv::random_edabits; msg is the input message read.
Verifier_random_edabits(tape_r, msg) ==
    [i \in 1..Len(tape_r) |-> [bits |-> tape_r[i], value |-> msg.vals[i]]]

\* ProverConv::random_dabits.
Prover_random_dabits(tape_d) ==
    LET num == Len(tape_d)
        b_m_batch == [i \in 1..num |-> f2_to_fe(tape_d[i])]
        b_m_mac_batch == FComProver_input(b_m_batch)
    IN  [dabit_vec |-> [i \in 1..num |->
             [bit |-> Commit(tape_d[i]),
              value |-> MacProver(b_m_batch[i], b_m_mac_batch[i])]],
         sent |-> <<InputMsg("FE", b_m_batch)>>]

\* VerifierConv::random_dabits.
Verifier_random_dabits(tape_d, msg) ==
    [i \in 1..Len(tape_d) |-> [bit |-> tape_d[i], value |-> msg.vals[i]]]

\* ProverConv::random_triples.
Prover_random_triples(tape_t) ==
    LET num == Len(tape_t)
        zs == [i \in 1..num |-> F2Mul(tape_t[i][1], tape_t[i][2])]
        zs_mac == FComProver_input(zs)
    IN  [out |-> [i \in 1..num |->
             <<Commit(tape_t[i][1]), Commit(tape_t[i][2]), MacProver(zs[i], zs_mac[i])>>],
         sent |-> <<InputMsg("F2", zs)>>]

\* VerifierConv::random_triples.
Verifier_random_triples(tape_t, msg) ==
    [i \in 1..Len(tape_t) |-> <<tape_t[i][1], tape_t[i][2], msg.vals[i]>>]

(***************************************************************************)
(* conv_loop.                                                              *)
(***************************************************************************)
\* FComProver::check_zero: the Prover finds the batch good iff every clear
\* value is zero.
Prover_check_zero(batch) == \A i \in 1..Len(batch) : batch[i][1] = 0

\* FComVerifier::check_zero: accepts iff every committed value is zero.
Verifier_check_zero_accept_all(batch) == TRUE

Verifier_check_zero(batch) == \A i \in 1..Len(batch) : batch[i] = 0

\* ProverConv::conv_loop that hands e' to check_zero, the fold of the opened
\* sum bits not taken off.
Prover_conv_loop_sum_kept(edabits_vector, r, dabits, e_batch) ==
    LET n == Len(edabits_vector)
        nb_bits == Len(edabits_vector[1].bits)
        power_two_nb_bits == power_two(nb_bits)
        e_carry_batch == [i \in 1..n |-> e_batch[i][2]]
        cb == Prover_convert_bit_2_field(dabits, e_carry_batch)
        e_prime_batch == [i \in 1..n |->
            FComProver_add(
                FComProver_add(edabits_vector[i].value, r[i].value),
                FComProver_affine_mult_cst(FENeg(power_two_nb_bits), cb.x_m_batch[i]))]
        ei_batch == Flatten([i \in 1..n |-> e_batch[i][1]])
    IN  [e_m_batch |-> cb.x_m_batch,
         e_prime_minus_sum_batch |-> e_prime_batch,
         sent |-> cb.sent \o <<OpenMsg("F2", ei_batch)>>]

\* ProverConv::conv_loop after bit_add_carry: the carries converted, e' and
\* the opened sum bits, the values handed to check_zero.
Prover_conv_loop(edabits_vector, r, dabits, e_batch) ==
    LET n == Len(edabits_vector)
        nb_bits == Len(edabits_vector[1].bits)
        power_two_nb_bits == power_two(nb_bits)
        e_carry_batch == [i \in 1..n |-> e_batch[i][2]]
        cb == Prover_convert_bit_2_field(dabits, e_carry_batch)
        e_prime_batch == [i \in 1..n |->
            FComProver_add(
                FComProver_add(edabits_vector[i].value, r[i].value),
                FComProver_affine_mult_cst(FENeg(power_two_nb_bits), cb.x_m_batch[i]))]
        ei_batch == Flatten([i \in 1..n |-> e_batch[i][1]])
        sum(i) == convert_bits_to_field_mac(Slice(ei_batch, (i - 1) * nb_bits, i * nb_bits))
    IN  [e_m_batch |-> cb.x_m_batch,
         e_prime_minus_sum_batch |-> [i \in 1..n |->
             FComProver_affine_add_cst(FENeg(sum(i)), e_prime_batch[i])],
         sent |-> cb.sent \o <<OpenMsg("F2", ei_batch)>>]

\* VerifierConv::conv_loop with e' = c + r, the carry not taken off.
Verifier_conv_loop_carry_kept(edabits_vector_mac, r_mac, dabits_mac, e_batch, c_msg, ei_msg) ==
    LET n == Len(edabits_vector_mac)
        nb_bits == Len(edabits_vector_mac[1].bits)
        e_carry_mac_batch == [i \in 1..n |-> e_batch[i][2]]
        cb == Verifier_convert_bit_2_field(dabits_mac, e_carry_mac_batch, c_msg)
        e_prime_mac_batch == [i \in 1..n |->
            FComVerifier_add(edabits_vector_mac[i].value, r_mac[i].value)]
        ei_mac_batch == Flatten([i \in 1..n |-> e_batch[i][1]])
        ei_batch == ei_msg.vals
        sum(i) == convert_bits_to_field(Slice(ei_batch, (i - 1) * nb_bits, i * nb_bits))
    IN  IF cb.err # "none" THEN [err |-> cb.err]
        ELSE IF ~OpenAccepts(ei_msg, ei_mac_batch) THEN [err |-> "open"]
        ELSE [err |-> "none",
              e_m_batch |-> cb.x_m_batch,
              e_prime_minus_sum_batch |-> [i \in 1..n |->
                  FComVerifier_affine_add_cst(FENeg(sum(i)), e_prime_mac_batch[i])]]

\* VerifierConv::conv_loop after bit_add_carry; c_msg and ei_msg are the two
\* open messages it reads.
Verifier_conv_loop(edabits_vector_mac, r_mac, dabits_mac, e_batch, c_msg, ei_msg) ==
    LET n == Len(edabits_vector_mac)
        nb_bits == Len(edabits_vector_mac[1].bits)
        power_two_nb_bits == power_two(nb_bits)
        e_carry_mac_batch == [i \in 1..n |-> e_batch[i][2]]
        cb == Verifier_convert_bit_2_field(dabits_mac, e_carry_mac_batch, c_msg)
        e_prime_mac_batch == [i \in 1..n |->
            FComVerifier_add(
                FComVerifier_add(edabits_vector_mac[i].value, r_mac[i].value),
                FComVerifier_affine_mult_cst(FENeg(power_two_nb_bits), cb.x_m_batch[i]))]
        ei_mac_batch == Flatten([i \in 1..n |-> e_batch[i][1]])
        ei_batch == ei_msg.vals
        sum(i) == convert_bits_to_field(Slice(ei_batch, (i - 1) * nb_bits, i * nb_bits))
    IN  IF cb.err # "none" THEN [err |-> cb.err]
        ELSE IF ~OpenAccepts(ei_msg, ei_mac_batch) THEN [err |-> "open"]
        ELSE [err |-> "none",
              e_m_batch |-> cb.x_m_batch,
              e_prime_minus_sum_batch |-> [i \in 1..n |->
                  FComVerifier_affine_add_cst(FENeg(sum(i)), e_prime_mac_batch[i])]]


(***************************************************************************)
(* conv, sequential mode.  Each action runs one role from one blocking     *)
(* read to the next.                                                       *)
(***************************************************************************)
ShuffleSeedMsg(seed) == [op |-> "seed", seed |-> seed]

FComProverF2_affine_add_cst(cst, a) == MacProver(F2Add(cst, a[1]), F2Add(cst, a[2]))

FComVerifierF2_affine_add_cst(cst, a) == F2Add(cst, a)

\* A bucket loop that hands the first window of the random edabits to every
\* bucket.
conv_bucket_first_window(role, j) ==
    LET n == Len(role.edabits_vector)
        nb_bits == Len(role.edabits_vector[1].bits)
        idx_base == j * n
    IN  IF j >= role.num_bucket
        THEN [role EXCEPT !.pc = "done"]
        ELSE [role EXCEPT
                 !.pc = "add",
                 !.j = j,
                 !.loops = @ + 1,
                 !.x_batch = role.edabits_vector,
                 !.y_batch = Slice(role.r, 0, n),
                 !.random_triples =
                     IF role.with_quicksilver THEN <<>>
                     ELSE Slice(role.pool_triples, idx_base * nb_bits,
                                idx_base * nb_bits + n * nb_bits),
                 !.st = Unset,
                 !.res = <<>>]

\* The call of conv_loop for bucket j (from 0) of either role: the caller's
\* edabits against the window [j*n, j*n + n) of the random edabits and, with
\* Wolverine, the window of n*nb_bits triples; past the last bucket, Ok.
conv_bucket(role, j) ==
    LET n == Len(role.edabits_vector)
        nb_bits == Len(role.edabits_vector[1].bits)
        idx_base == j * n
    IN  IF j >= role.num_bucket
        THEN [role EXCEPT !.pc = "done"]
        ELSE [role EXCEPT
                 !.pc = "add",
                 !.j = j,
                 !.loops = @ + 1,
                 !.x_batch = role.edabits_vector,
                 !.y_batch = Slice(role.r, idx_base, idx_base + n),
                 !.random_triples =
                     IF role.with_quicksilver THEN <<>>
                     ELSE Slice(role.pool_triples, idx_base * nb_bits,
                                idx_base * nb_bits + n * nb_bits),
                 !.st = Unset,
                 !.res = <<>>]

\* The Option of conv's bucket_channels: None, or Some of a vector of len
\* channels.
NoChannels == [some |-> FALSE, len |-> 0]

SomeChannels(len) == [some |-> TRUE, len |-> len]

\* The join loop of the fan-out of either role from handle jn (from 0): past
\* the last handle, Ok.
join_next(role, jn) ==
    IF jn >= Len(role.workers)
    THEN [role EXCEPT !.pc = "done"]
    ELSE [role EXCEPT !.pc = "join", !.jn = jn]

\* The pass that spawns the worker of bucket j before the call of duplicate.
fan_out_spawning_first(role, j) ==
    IF j >= role.bucket_channels.len
    THEN join_next(role, 0)
    ELSE [role EXCEPT !.pc = "duplicate", !.j = j,
                      !.workers = Append(@, [state |-> "running"])]

\* One pass of `for mut bucket_channel in bucket_channels` of either role, up
\* to its call of duplicate: the windows of bucket j sliced out of the pools
\* (a window past the end of a pool panics); past the last channel, the join
\* loop.
fan_out(role, j) ==
    LET n == Len(role.edabits_vector)
        nb_bits == Len(role.edabits_vector[1].bits)
        idx_base == j * n
    IN  IF j >= role.bucket_channels.len
        THEN join_next(role, 0)
        ELSE IF \/ idx_base + n > Len(role.r)
                \/ idx_base + n > Len(role.dabits)
                \/ /\ ~role.with_quicksilver
                   /\ idx_base * nb_bits + n * nb_bits > Len(role.pool_triples)
        THEN [role EXCEPT !.pc = "panicked", !.err = "range end index out of range"]
        ELSE [role EXCEPT !.pc = "duplicate", !.j = j]

\* The worker spawned for bucket j of either role: the copies it owns.
spawn(role, j) ==
    LET n == Len(role.edabits_vector)
        nb_bits == Len(role.edabits_vector[1].bits)
        idx_base == j * n
    IN  [state |-> "running",
         edabits_vector_par |-> role.edabits_vector,
         r_par |-> Slice(role.r, idx_base, idx_base + n),
         dabits_par |-> Slice(role.dabits, idx_base, idx_base + n),
         random_triples_par |->
             IF role.with_quicksilver THEN <<>>
             ELSE Slice(role.pool_triples, idx_base * nb_bits,
                        idx_base * nb_bits + n * nb_bits)]

\* Step 6 of conv of either role: `if bucket_channels.is_none()`, the
\* buckets one after the other on the main channel, else the fan-out.
conv_buckets(role) ==
    IF ~role.bucket_channels.some
    THEN conv_bucket(role, 0)
    ELSE fan_out(role, 0)

\* The dabits of the bucket a role is running.
BucketDabits(role) ==
    LET n == Len(role.edabits_vector)
    IN  Slice(role.dabits, role.j * n, role.j * n + n)

\* The number of triples the cut opens (step 5b).
CutTriples(role) ==
    IF role.with_quicksilver THEN 0
    ELSE role.num_cut * Len(role.edabits_vector[1].bits)

\* Triple i of a cut whose base is counted in edabits, not in triples.
CutTriple_edabit_base(role, i) ==
    LET n == Len(role.edabits_vector)
    IN  role.pool_triples[n * role.num_bucket + i + 1]

\* Triple i (from 0) of the cut of either role.
CutTriple(role, i) ==
    LET n == Len(role.edabits_vector)
        nb_bits == Len(role.edabits_vector[1].bits)
    IN  role.pool_triples[n * role.num_bucket * nb_bits + i + 1]

\* Step 5b on the Prover for one triple: x and y opened, v = z - x*y.
Prover_cut_triple(triple) ==
    [v |-> FComProverF2_affine_add_cst(F2Mul(triple[1][1], triple[2][1]), triple[3]),
     sent |-> <<OpenMsg("F2", <<triple[1], triple[2]>>)>>]

\* Step 5b on the Verifier for one triple; msg is the open message read.
Verifier_cut_triple(triple, msg) ==
    IF ~OpenAccepts(msg, <<triple[1], triple[2]>>) THEN [err |-> "open"]
    ELSE [err |-> "none",
          v |-> FComVerifierF2_affine_add_cst(F2Mul(msg.vals[1], msg.vals[2]), triple[3])]

\* Step 5a on the Prover: the bits and the value of each cut edabit opened.
Prover_cut_opens(r, base, num_cut) ==
    Flatten([i \in 1..num_cut |->
        <<OpenMsg("F2", r[base + i].bits), OpenMsg("FE", <<r[base + i].value>>)>>])

\* Step 5a on the Verifier, the test of one opened edabit.
Verifier_cut_consistent_always(a_vec, a_m) == TRUE

Verifier_cut_consistent(a_vec, a_m) == convert_bits_to_field(a_vec) = a_m[1]

\* ProverConv::conv, lines 681-699: the random edabits, dabits and, with
\* Wolverine, triples.
P_random_pools ==
    /\ prover.pc = "conv"
    /\ LET e == Prover_random_edabits(prover.tape.r,
                    IF prover.fault.kind = "random_edabit" THEN prover.fault.i ELSE 0)
           d == Prover_random_dabits(prover.tape.d)
           t == Prover_random_triples(prover.tape.t)
       IN  /\ prover' = [prover EXCEPT !.pc = "fdabit", !.tape = Unset,
                            !.r = e.edabits_vec,
                            !.dabits = d.dabit_vec,
                            !.pool_triples = IF prover.with_quicksilver THEN <<>> ELSE t.out]
           /\ toVerifier' = toVerifier \o e.sent \o d.sent
                                \o (IF prover.with_quicksilver THEN <<>> ELSE t.sent)
    /\ UNCHANGED <<verifier, toProver>>
    /\ UNCHANGED hist

\* VerifierConv::conv, lines 1276-1303.
V_random_pools ==
    /\ verifier.pc = "conv"
    /\ LET need == IF verifier.with_quicksilver THEN 2 ELSE 3 IN
       /\ Len(toVerifier) >= need
       /\ \A k \in 1..need : toVerifier[k].op = "input"
       /\ verifier' = [verifier EXCEPT !.pc = "fdabit", !.tape = Unset,
              !.r = Verifier_random_edabits(verifier.tape.r, toVerifier[1]),
              !.dabits = Verifier_random_dabits(verifier.tape.d, toVerifier[2]),
              !.pool_triples = IF verifier.with_quicksilver THEN <<>>
                               ELSE Verifier_random_triples(verifier.tape.t, toVerifier[3])]
       /\ toVerifier' = SubSeq(toVerifier, need + 1, Len(toVerifier))
    /\ UNCHANGED <<prover, toProver>>
    /\ UNCHANGED hist

\* The Prover after step 5a: the first cut triple opened, or the buckets.
Prover_after_cut(p) ==
    IF CutTriples(p) > 0
    THEN LET ct == Prover_cut_triple(CutTriple(p, 0))
         IN  [p |-> [p EXCEPT !.pc = "cut_triples", !.ti = 0, !.check = <<ct.v>>],
              sent |-> ct.sent]
    ELSE [p |-> conv_buckets(p), sent |-> <<>>]

\* A Prover that shuffles the pools with a seed of its own, then reads the
\* block the Verifier sent.
P_shuffle_cut_own_seed ==
    /\ prover.pc = "fd_done"
    /\ toProver # <<>>
    /\ Head(toProver).op = "seed"
    /\ LET seed == 0
           sh == Prover_shuffle(seed, prover.r, prover.dabits, prover.pool_triples)
           shuffled == [prover EXCEPT !.r = sh.r, !.dabits = sh.dabits,
                                      !.pool_triples = sh.random_triples]
           base == Len(prover.edabits_vector) * prover.num_bucket
           next == Prover_after_cut(shuffled)
       IN  /\ prover' = next.p
           /\ toVerifier' = toVerifier
                  \o Prover_cut_opens(sh.r, base, prover.num_cut) \o next.sent
           /\ hist' = [hist EXCEPT !.perm_p =
                  Prover_shuffle(seed, Positions(prover.r), Positions(prover.dabits),
                                 Positions(prover.pool_triples))]
    /\ toProver' = Tail(toProver)
    /\ UNCHANGED verifier

\* ProverConv::conv, lines 705-731: the seed read, the pools shuffled, the
\* cut edabits opened.
P_shuffle_cut ==
    /\ prover.pc = "fd_done"
    /\ toProver # <<>>
    /\ Head(toProver).op = "seed"
    /\ LET seed == Head(toProver).seed
           sh == Prover_shuffle(seed, prover.r, prover.dabits, prover.pool_triples)
           shuffled == [prover EXCEPT !.r = sh.r, !.dabits = sh.dabits,
                                      !.pool_triples = sh.random_triples]
           base == Len(prover.edabits_vector) * prover.num_bucket
           next == Prover_after_cut(shuffled)
       IN  /\ prover' = next.p
           /\ toVerifier' = toVerifier
                  \o Prover_cut_opens(sh.r, base, prover.num_cut) \o next.sent
           /\ hist' = [hist EXCEPT !.perm_p =
                  Prover_shuffle(seed, Positions(prover.r), Positions(prover.dabits),
                                 Positions(prover.pool_triples))]
    /\ toProver' = Tail(toProver)
    /\ UNCHANGED verifier

\* ProverConv::conv, lines 723-731: the check_zero of one cut triple, then
\* the next triple opened or the buckets.
P_cut_triple ==
    /\ prover.pc = "cut_triples"
    /\ toProver # <<>>
    /\ Head(toProver) = ChallengeMsg("check_zero")
    /\ toProver' = Tail(toProver)
    /\ IF ~Prover_check_zero(prover.check)
       THEN /\ prover' = [prover EXCEPT !.pc = "failed", !.err = "check_zero"]
            /\ toVerifier' = Append(toVerifier, ProofMsg("check_zero"))
       ELSE IF prover.ti + 1 < CutTriples(prover)
       THEN LET ct == Prover_cut_triple(CutTriple(prover, prover.ti + 1))
            IN  /\ prover' = [prover EXCEPT !.ti = @ + 1, !.check = <<ct.v>>]
                /\ toVerifier' = Append(toVerifier, ProofMsg("check_zero")) \o ct.sent
       ELSE /\ prover' = conv_buckets(prover)
            /\ toVerifier' = Append(toVerifier, ProofMsg("check_zero"))
    /\ UNCHANGED verifier
    /\ UNCHANGED hist

\* The Verifier going from step 5a to the buckets, step 5b left out.
Verifier_after_cut_to_buckets(v) == conv_buckets(v)

\* The Verifier after step 5a: the cut triples, or the buckets.
Verifier_after_cut(v) ==
    IF CutTriples(v) > 0
    THEN [v EXCEPT !.pc = "cut_triples", !.ti = 0]
    ELSE conv_buckets(v)

\* VerifierConv::conv, lines 1311-1323: the seed drawn, written and flushed,
\* the pools shuffled.
V_shuffle ==
    /\ verifier.pc = "fd_done"
    /\ \E seed \in 0..(SeedSpace - 1) :
          LET sh == Verifier_shuffle(seed, verifier.r, verifier.dabits,
                                     verifier.pool_triples)
              shuffled == [verifier EXCEPT !.r = sh.r, !.dabits = sh.dabits,
                                           !.pool_triples = sh.random_triples,
                                           !.pc = "cut", !.cut_i = 0]
          IN  /\ toProver' = Append(toProver, ShuffleSeedMsg(seed))
              /\ verifier' = IF verifier.num_cut = 0
                             THEN Verifier_after_cut(shuffled)
                             ELSE shuffled
              /\ hist' = [hist EXCEPT !.perm_v =
                     Verifier_shuffle(seed, Positions(verifier.r),
                                      Positions(verifier.dabits),
                                      Positions(verifier.pool_triples))]
    /\ UNCHANGED <<prover, toVerifier>>

\* VerifierConv::conv, lines 1328-1339, one pass of the loop: the bits and
\* the value of cut edabit cut_i opened and compared.
V_cut_open ==
    /\ verifier.pc = "cut"
    /\ Len(toVerifier) >= 2
    /\ toVerifier[1].op = "open"
    /\ toVerifier[2].op = "open"
    /\ LET base == Len(verifier.edabits_vector) * verifier.num_bucket
           a_mac == verifier.r[base + verifier.cut_i + 1]
           a_vec == toVerifier[1].vals
           a_m == toVerifier[2].vals
       IN  IF ~OpenAccepts(toVerifier[1], a_mac.bits)
              \/ ~OpenAccepts(toVerifier[2], <<a_mac.value>>)
           THEN verifier' = [verifier EXCEPT !.pc = "failed", !.err = "open"]
           ELSE IF ~Verifier_cut_consistent(a_vec, a_m)
           THEN verifier' = [verifier EXCEPT !.pc = "failed",
                                             !.err = "Wrong open random edabit"]
           ELSE IF verifier.cut_i + 1 < verifier.num_cut
           THEN verifier' = [verifier EXCEPT !.cut_i = @ + 1]
           ELSE verifier' = Verifier_after_cut([verifier EXCEPT !.cut_i = @ + 1])
    /\ toVerifier' = SubSeq(toVerifier, 3, Len(toVerifier))
    /\ UNCHANGED <<prover, toProver>>
    /\ UNCHANGED hist

\* VerifierConv::conv, lines 1348-1354: x and y of cut triple ti opened, the
\* check_zero of z - x*y begun.
V_cut_triple_open ==
    /\ verifier.pc = "cut_triples"
    /\ toVerifier # <<>>
    /\ Head(toVerifier).op = "open"
    /\ LET ct == Verifier_cut_triple(CutTriple(verifier, verifier.ti), Head(toVerifier))
       IN  IF ct.err # "none"
           THEN /\ verifier' = [verifier EXCEPT !.pc = "failed", !.err = ct.err]
                /\ UNCHANGED toProver
           ELSE /\ verifier' = [verifier EXCEPT !.pc = "cut_triple_zero",
                                                !.check = <<ct.v>>]
                /\ toProver' = Append(toProver, ChallengeMsg("check_zero"))
    /\ toVerifier' = Tail(toVerifier)
    /\ UNCHANGED prover
    /\ UNCHANGED hist

\* VerifierConv::conv, line 1354: the verdict of the check_zero of a cut
\* triple, then the next triple or the buckets.
V_cut_triple_zero ==
    /\ verifier.pc = "cut_triple_zero"
    /\ toVerifier # <<>>
    /\ Head(toVerifier) = ProofMsg("check_zero")
    /\ toVerifier' = Tail(toVerifier)
    /\ verifier' =
           IF ~Verifier_check_zero(verifier.check)
           THEN [verifier EXCEPT !.pc = "failed", !.err = "check_zero"]
           ELSE IF verifier.ti + 1 < CutTriples(verifier)
           THEN [verifier EXCEPT !.pc = "cut_triples", !.ti = @ + 1]
           ELSE conv_buckets(verifier)
    /\ UNCHANGED <<prover, toProver>>
    /\ UNCHANGED hist

\* ProverConv::conv_loop, lines 620-662: the carries converted and opened,
\* the sum bits opened, up to the read of check_zero.
P_conv_loop_open ==
    /\ prover.pc = "add_done"
    /\ LET st == Prover_conv_loop(prover.x_batch, prover.y_batch,
                                  BucketDabits(prover), prover.res)
       IN  /\ prover' = [prover EXCEPT !.pc = "loop_zero", !.e_m_batch = st.e_m_batch,
                                       !.check = st.e_prime_minus_sum_batch]
           /\ toVerifier' = toVerifier \o st.sent
    /\ UNCHANGED <<verifier, toProver>>
    /\ UNCHANGED hist

\* A Prover that notes the verdict of check_zero and goes to the next
\* bucket all the same.
P_conv_loop_check_zero_goes_on ==
    /\ prover.pc = "loop_zero"
    /\ toProver # <<>>
    /\ Head(toProver) = ChallengeMsg("check_zero")
    /\ toProver' = Tail(toProver)
    /\ toVerifier' = Append(toVerifier, ProofMsg("check_zero"))
    /\ prover' = conv_bucket(
                     [prover EXCEPT !.err = IF Prover_check_zero(prover.check)
                                            THEN @ ELSE "check_zero"],
                     prover.j + 1)
    /\ UNCHANGED verifier
    /\ UNCHANGED hist

\* ProverConv::conv_loop, line 666: check_zero, then the next bucket.
P_conv_loop_check_zero ==
    /\ prover.pc = "loop_zero"
    /\ toProver # <<>>
    /\ Head(toProver) = ChallengeMsg("check_zero")
    /\ toProver' = Tail(toProver)
    /\ toVerifier' = Append(toVerifier, ProofMsg("check_zero"))
    /\ prover' = IF Prover_check_zero(prover.check)
                 THEN conv_bucket(prover, prover.j + 1)
                 ELSE [prover EXCEPT !.pc = "failed", !.err = "check_zero"]
    /\ UNCHANGED verifier
    /\ UNCHANGED hist

\* VerifierConv::conv_loop, lines 1204-1259: the two opens read, the values
\* to check computed, check_zero begun.
V_conv_loop_open ==
    /\ verifier.pc = "add_done"
    /\ Len(toVerifier) >= 2
    /\ toVerifier[1].op = "open"
    /\ toVerifier[2].op = "open"
    /\ LET st == Verifier_conv_loop(verifier.x_batch, verifier.y_batch,
                     BucketDabits(verifier), verifier.res, toVerifier[1], toVerifier[2])
       IN  IF st.err # "none"
           THEN /\ verifier' = [verifier EXCEPT !.pc = "failed", !.err = st.err]
                /\ UNCHANGED toProver
           ELSE /\ verifier' = [verifier EXCEPT !.pc = "loop_zero",
                                   !.e_m_batch = st.e_m_batch,
                                   !.check = st.e_prime_minus_sum_batch]
                /\ toProver' = Append(toProver, ChallengeMsg("check_zero"))
    /\ toVerifier' = SubSeq(toVerifier, 3, Len(toVerifier))
    /\ UNCHANGED prover
    /\ UNCHANGED hist

\* The verdict of check_zero noted but not returned: the next bucket all the
\* same.
V_conv_loop_check_zero_goes_on ==
    /\ verifier.pc = "loop_zero"
    /\ toVerifier # <<>>
    /\ Head(toVerifier) = ProofMsg("check_zero")
    /\ toVerifier' = Tail(toVerifier)
    /\ verifier' = conv_bucket(
                       [verifier EXCEPT !.err = IF Verifier_check_zero(verifier.check)
                                                THEN @ ELSE "check_zero"],
                       verifier.j + 1)
    /\ UNCHANGED <<prover, toProver>>
    /\ UNCHANGED hist

\* VerifierConv::conv_loop, lines 1258-1262: the verdict of check_zero, then
\* the next bucket.
V_conv_loop_check_zero ==
    /\ verifier.pc = "loop_zero"
    /\ toVerifier # <<>>
    /\ Head(toVerifier) = ProofMsg("check_zero")
    /\ toVerifier' = Tail(toVerifier)
    /\ verifier' = IF Verifier_check_zero(verifier.check)
                   THEN conv_bucket(verifier, verifier.j + 1)
                   ELSE [verifier EXCEPT !.pc = "failed", !.err = "check_zero"]
    /\ UNCHANGED <<prover, toProver>>
    /\ UNCHANGED hist


(***************************************************************************)
(* SpecConv: conv in sequential mode on a batch of caller edabits, honest  *)
(* or with one fault: one bit of one caller edabit flipped, either in the  *)
(* authenticated bit itself ("flip": the edabit authenticates bits whose   *)
(* fold is not the authenticated value) or in the Prover's clear value     *)
(* alone ("flip_clear": the mac stays that of the bit committed), or one   *)
(* random edabit whose value the Prover inputs wrong.  The assertions      *)
(* of debug builds hold in every run (the dabits are those of              *)
(* random_dabits), so the build makes no difference.                       *)
(***************************************************************************)
\* The bits of the caller's edabits, of the random edabits and of the random
\* triples of a run of the given shape.
ConvBits(sh) ==
    LET pool == sh.n * sh.B + sh.C
    IN  sh.n * sh.m + pool * sh.m + (IF sh.qs THEN 0 ELSE 2 * pool * sh.m)

ConvShapes ==
    {sh \in [n : 1..MaxEdabits, m : 1..MaxNbBits, B : 0..MaxBucket, C : 0..MaxCut,
             qs : BOOLEAN] :
        /\ ConvBits(sh) <= MaxConvBits
        /\ sh.n * sh.B <= MaxDabits}

NoFault == [kind |-> "none", i |-> 0, j |-> 0]

Faults(sh) ==
    {NoFault}
    \cup {[kind |-> kd, i |-> i, j |-> j] :
              kd \in {"flip", "flip_clear"}, i \in 1..sh.n, j \in 1..sh.m}
    \cup {[kind |-> "random_edabit", i |-> t, j |-> 0] : t \in 1..(sh.n * sh.B + sh.C)}

\* bits with position j flipped.
FlipBit(bits, j) == [k \in 1..Len(bits) |-> IF k = j THEN 1 - bits[k] ELSE bits[k]]

\* The caller's edabit committed to the given bits and to their fold, then
\* its bit j flipped as kind tells.
CallerEdabit(bits, kind, j) ==
    LET honest == EdabitsProver(bits, convert_bits_to_field(bits))
    IN  IF kind = "flip"
        THEN EdabitsProver(FlipBit(bits, j), convert_bits_to_field(bits))
        ELSE IF kind = "flip_clear"
        THEN [honest EXCEPT !.bits[j] = MacProver(1 - bits[j], bits[j])]
        ELSE honest

InitConv ==
    \E sh \in ConvShapes :
    \E fault \in Faults(sh) :
    \E xs \in [1..sh.n -> BitSeqs(sh.m)],
       tape_r \in [1..(sh.n * sh.B + sh.C) -> BitSeqs(sh.m)],
       tape_d \in BitSeqs(sh.n * sh.B),
       tape_t \in [1..(IF sh.qs THEN 0 ELSE (sh.n * sh.B + sh.C) * sh.m) -> BitSeqs(2)] :
        LET edabits_vector == [i \in 1..sh.n |->
                CallerEdabit(xs[i], IF fault.i = i THEN fault.kind ELSE "none", fault.j)]
            tape == [r |-> tape_r, d |-> tape_d, t |-> tape_t]
            common == [pc |-> "conv", err |-> "none",
                       num_bucket |-> sh.B, num_cut |-> sh.C, with_quicksilver |-> sh.qs,
                       tape |-> tape, r |-> <<>>, dabits |-> <<>>, pool_triples |-> <<>>,
                       k |-> 0, fd_res |-> TRUE, j |-> 0, loops |-> 0, ti |-> 0,
                       x_batch |-> <<>>, y_batch |-> <<>>, random_triples |-> <<>>,
                       st |-> Unset, res |-> <<>>, e_m_batch |-> <<>>, check |-> <<>>,
                       bucket_channels |-> NoChannels, workers |-> <<>>, jn |-> 0]
        IN  /\ prover = common @@ [edabits_vector |-> edabits_vector,
                                   fault |-> fault, debug |-> FALSE]
            /\ verifier = common @@ [edabits_vector |-> SeqMap(EdabitsVerifier, edabits_vector),
                                     triples_ok |-> TRUE, cut_i |-> 0]
            /\ toVerifier = <<>>
            /\ toProver = <<>>
            /\ hist = [flipped |-> 0, hit |-> FALSE, perm_p |-> Unset, perm_v |-> Unset]

NextConv ==
    \/ P_random_pools
    \/ V_random_pools
    \/ P_fdabit_commit
    \/ V_fdabit_challenge
    \/ P_fdabit_seed
    \/ Fdabit_row
    \/ V_fdabit_check
    \/ P_fdabit_finish
    \/ V_fdabit_finish
    \/ P_shuffle_cut
    \/ V_shuffle
    \/ V_cut_open
    \/ P_cut_triple
    \/ V_cut_triple_open
    \/ V_cut_triple_zero
    \/ P_add_rounds
    \/ V_add_rounds
    \/ P_add_check
    \/ V_add_check
    \/ P_conv_loop_open
    \/ V_conv_loop_open
    \/ P_conv_loop_check_zero
    \/ V_conv_loop_check_zero

SpecConv == InitConv /\ [][NextConv]_vars

BothDone == prover.pc = "done" /\ verifier.pc = "done"

NoRoleFailed == prover.pc \notin {"failed", "panicked"} /\ verifier.pc # "failed"

\* The number of random dabits conv hands to fdabit.
NbRandomDabits == Len(prover.edabits_vector) * prover.num_bucket


\* C3 as stated: on every non-empty batch of honest edabits, for any B and
\* C, no check fails on either role and, until both roles have returned Ok,
\* some role can take its next step.
ConvCompleteAsStated ==
    prover.fault = NoFault =>
        /\ NoRoleFailed
        /\ BothDone \/ ENABLED NextConv

\* C3: on every non-empty batch of honest edabits, for any B and C such
\* that the n*B random dabits pass the parameter check of fdabit, no check
\* fails on either role and, until both roles have returned Ok, some role
\* can take its next step.
ConvComplete ==
    (prover.fault = NoFault /\ PassesParameterCheck(NbRandomDabits)) =>
        /\ NoRoleFailed
        /\ BothDone \/ ENABLED NextConv

\* Two buckets and a cut element run to success on both roles.
ConvCompleteWitness ==
    /\ prover.fault = NoFault
    /\ BothDone
    /\ prover.num_bucket = 2
    /\ prover.num_cut = 1
    /\ prover.loops = 2
    /\ verifier.loops = 2

\* C4: with one bit of one caller edabit flipped and B >= 1, neither role
\* returns success; a role that reaches a check_zero of conv_loop is in the
\* first bucket and hands it a non-zero value; when the edabit authenticates
\* the flipped bit and the dabits pass the parameter check, the failure of
\* either role is that check_zero of the first bucket.
ConvDetectsFlip ==
    (prover.fault.kind \in {"flip", "flip_clear"} /\ prover.num_bucket >= 1) =>
        /\ prover.pc # "done"
        /\ verifier.pc # "done"
        /\ prover.pc = "loop_zero" =>
              (prover.j = 0 /\ ~Prover_check_zero(prover.check))
        /\ verifier.pc = "loop_zero" =>
              (verifier.j = 0 /\ ~Verifier_check_zero(verifier.check))
        /\ (prover.fault.kind = "flip" /\ PassesParameterCheck(NbRandomDabits)) =>
              /\ verifier.pc = "failed" =>
                    (verifier.err = "check_zero" /\ verifier.loops = 1)
              /\ prover.pc = "failed" =>
                    (prover.err = "check_zero" /\ prover.loops = 1)

\* The second bit of a 2-bit edabit flipped: both roles fail at the
\* check_zero of the first bucket.
ConvDetectsFlipWitness ==
    /\ prover.fault.kind = "flip"
    /\ prover.fault.j = 2
    /\ verifier.pc = "failed"
    /\ verifier.err = "check_zero"
    /\ verifier.loops = 1
    /\ prover.pc = "failed"
    /\ prover.err = "check_zero"

\* Cut element i (from 1) of the Verifier's shuffled pool is inconsistent.
CutElementBad(i) ==
    LET a == verifier.r[Len(verifier.edabits_vector) * verifier.num_bucket + i]
    IN  convert_bits_to_field(a.bits) # a.value

\* C5: once the Verifier has shuffled, if one of the C edabits of the cut
\* (the last C of its shuffled pool) is inconsistent, the Verifier is still
\* in the cut before that edabit or has failed at it with "Wrong open random
\* edabit", and it has run no conv_loop.
CutRejects ==
    (hist.perm_v # Unset /\ \E i \in 1..verifier.num_cut : CutElementBad(i)) =>
        /\ verifier.pc \in {"cut", "failed"}
        /\ verifier.loops = 0
        /\ \A i \in 1..verifier.cut_i : ~CutElementBad(i)
        /\ verifier.pc = "failed" =>
              /\ verifier.err = "Wrong open random edabit"
              /\ CutElementBad(verifier.cut_i + 1)

\* The second of two cut edabits is the inconsistent one; the Verifier
\* accepted the first and failed at the second, before any bucket.
CutRejectsWitness ==
    /\ verifier.pc = "failed"
    /\ verifier.err = "Wrong open random edabit"
    /\ verifier.num_cut = 2
    /\ verifier.cut_i = 1
    /\ verifier.num_bucket >= 1
    /\ verifier.loops = 0

\* C10: once both roles have shuffled (the Prover with the seed it read from
\* the Verifier), each pool was permuted the same way on both sides, and
\* position k of every pool holds the two roles' shares of the same value.
ShuffleDeterministic ==
    (hist.perm_p # Unset /\ hist.perm_v # Unset) =>
        /\ hist.perm_p = hist.perm_v
        /\ SeqMap(EdabitsVerifier, prover.r) = verifier.r
        /\ SeqMap(DabitVerifier, prover.dabits) = verifier.dabits
        /\ [k \in 1..Len(prover.pool_triples) |->
               <<prover.pool_triples[k][1][2], prover.pool_triples[k][2][2],
                 prover.pool_triples[k][3][2]>>] = verifier.pool_triples

\* Pools of three edabits and two dabits, both shuffled out of their order.
ShuffleDeterministicWitness ==
    /\ hist.perm_p # Unset
    /\ hist.perm_v # Unset
    /\ Len(prover.r) = 3
    /\ Len(prover.dabits) = 2
    /\ hist.perm_v.r # <<1, 2, 3>>
    /\ hist.perm_v.dabits = <<2, 1>>


(***************************************************************************)
(* The fan-out of conv, lines 765-819 and 1402-1462.  The main task of a   *)
(* role takes one channel of the vector at a time: it copies the windows   *)
(* of the bucket, calls duplicate on the main channel and spawns a worker  *)
(* that runs conv_loop over its own channel; then it joins the handles in  *)
(* order.  A worker and its peer talk over a channel of their own and own  *)
(* their state, so their conversation is one step of the model.            *)
(***************************************************************************)
MaxChannels == 3

\* conv_loop of the Prover's worker pw against conv_loop of the Verifier's
\* worker vw over their bucket channel: what each returns.  The Prover's
\* worker is left blocked in a read when its peer returned before sending
\* the challenge of check_zero.
conv_loop_run(pw, vw) ==
    LET adds == {<<p_add, Verifier_bit_add_carry(vw.edabits_vector_par, vw.r_par,
                                                 p_add.sent)>> :
                    p_add \in {Prover_bit_add_carry(pw.edabits_vector_par, pw.r_par)}}
        loops == UNION {{<<a[2], p_loop>> :
                            p_loop \in {Prover_conv_loop(pw.edabits_vector_par, pw.r_par,
                                            pw.dabits_par, Prover_add_result(a[1]))}} :
                        a \in adds}
        runs == {<<l[1], l[2],
                   Verifier_conv_loop(vw.edabits_vector_par, vw.r_par, vw.dabits_par,
                                      Verifier_add_result(l[1]),
                                      l[2].sent[1], l[2].sent[2])>> : l \in loops}
        v_errs == {<<run[2],
                     IF ~TriplesMultiplyF2(run[1].triples) THEN "check_multiply"
                     ELSE IF run[3].err # "none" THEN run[3].err
                     ELSE IF ~Verifier_check_zero(run[3].e_prime_minus_sum_batch)
                     THEN "check_zero"
                     ELSE "none">> : run \in runs}
    IN  CHOOSE o \in {[v |-> e[2],
                       p |-> IF e[2] \notin {"none", "check_zero"} THEN "blocked"
                             ELSE IF Prover_check_zero(e[1].e_prime_minus_sum_batch)
                             THEN "none"
                             ELSE "check_zero"] : e \in v_errs} : TRUE

\* What a worker's state becomes when its conv_loop returned with err.
Finished(err) == IF err = "none" THEN "ok" ELSE IF err = "blocked" THEN "blocked" ELSE "failed"

\* ProverConv::conv, line 796: duplicate returns on the main channel; on Ok
\* the worker of bucket j is spawned and the next pass begins, on Err conv
\* returns the error.
P_duplicate ==
    /\ prover.pc = "duplicate"
    /\ \E ok \in BOOLEAN :
          prover' = IF ok
                    THEN fan_out([prover EXCEPT !.workers = Append(@, spawn(prover, prover.j))],
                                 prover.j + 1)
                    ELSE [prover EXCEPT !.pc = "failed", !.err = "duplicate"]
    /\ UNCHANGED <<verifier, toVerifier, toProver, hist>>

\* VerifierConv::conv, line 1435.
V_duplicate ==
    /\ verifier.pc = "duplicate"
    /\ \E ok \in BOOLEAN :
          verifier' = IF ok
                      THEN fan_out([verifier EXCEPT
                                       !.workers = Append(@, spawn(verifier, verifier.j))],
                                   verifier.j + 1)
                      ELSE [verifier EXCEPT !.pc = "failed", !.err = "duplicate"]
    /\ UNCHANGED <<prover, toVerifier, toProver, hist>>

\* The workers of one bucket holding the conversation of their conv_loop on
\* the main channel instead of their bucket channel.
Worker_conv_loop_on_main_channel ==
    /\ \E k \in 1..Len(prover.workers) :
          /\ k <= Len(verifier.workers)
          /\ prover.workers[k].state = "running"
          /\ verifier.workers[k].state = "running"
          /\ \E o \in {conv_loop_run(prover.workers[k], verifier.workers[k])} :
                /\ prover' = [prover EXCEPT !.workers[k].state = Finished(o.p),
                                            !.loops = @ + 1]
                /\ verifier' = [verifier EXCEPT !.workers[k].state = Finished(o.v),
                                                !.loops = @ + 1]
    /\ toVerifier' = toVerifier \o
           Prover_bit_add_carry(prover.workers[1].edabits_vector_par,
                                prover.workers[1].r_par).sent
    /\ UNCHANGED <<toProver, hist>>

\* The workers of one bucket, both spawned, run conv_loop against each other.
Worker_conv_loop ==
    /\ \E k \in 1..Len(prover.workers) :
          /\ k <= Len(verifier.workers)
          /\ prover.workers[k].state = "running"
          /\ verifier.workers[k].state = "running"
          /\ \E o \in {conv_loop_run(prover.workers[k], verifier.workers[k])} :
                /\ prover' = [prover EXCEPT !.workers[k].state = Finished(o.p),
                                            !.loops = @ + 1]
                /\ verifier' = [verifier EXCEPT !.workers[k].state = Finished(o.v),
                                                !.loops = @ + 1]
    /\ UNCHANGED <<toVerifier, toProver, hist>>

\* The join that takes a worker's Err for Ok.
join_ignoring_err(role) == join_next(role, role.jn + 1)

\* handle.join().unwrap().unwrap() of either role on the handle it waits
\* for: the next handle or Ok when the worker returned Ok, a panic when it
\* returned Err.
join(role) ==
    IF role.workers[role.jn + 1].state = "ok"
    THEN join_next(role, role.jn + 1)
    ELSE [role EXCEPT !.pc = "panicked", !.err = "unwrap"]

\* ProverConv::conv, lines 814-816, one pass.
P_join ==
    /\ prover.pc = "join"
    /\ prover.workers[prover.jn + 1].state \in {"ok", "failed"}
    /\ prover' = join(prover)
    /\ UNCHANGED <<verifier, toVerifier, toProver, hist>>

\* VerifierConv::conv, lines 1457-1459, one pass.
V_join ==
    /\ verifier.pc = "join"
    /\ verifier.workers[verifier.jn + 1].state \in {"ok", "failed"}
    /\ verifier' = join(verifier)
    /\ UNCHANGED <<prover, toVerifier, toProver, hist>>


(***************************************************************************)
(* SpecPar: step 6 of conv, from the state in which a role enters it: the  *)
(* pools generated, the dabits passed by fdabit, the pools shuffled, the   *)
(* cut opened without error.  The same caller edabits and pools are run    *)
(* with bucket_channels None and with Some of a vector of 0 to MaxChannels *)
(* channels; the caller's edabits are honest or carry one flipped bit, and *)
(* one random edabit of a bucket window may hold a wrong value.            *)
(***************************************************************************)
ParShapes == {sh \in ConvShapes : PassesParameterCheck(sh.n * sh.B)}

ParFaults(sh) ==
    {f \in Faults(sh) : f.kind = "random_edabit" => f.i <= sh.n * sh.B}

ParChannels == {NoChannels} \cup {SomeChannels(len) : len \in 0..MaxChannels}

InitPar ==
    \E sh \in ParShapes :
    \E fault \in ParFaults(sh) :
    \E bucket_channels \in ParChannels :
    \E xs \in [1..sh.n -> BitSeqs(sh.m)],
       tape_r \in [1..(sh.n * sh.B + sh.C) -> BitSeqs(sh.m)],
       tape_d \in BitSeqs(sh.n * sh.B),
       tape_t \in [1..(IF sh.qs THEN 0 ELSE (sh.n * sh.B + sh.C) * sh.m) -> BitSeqs(2)] :
        LET edabits_vector == [i \in 1..sh.n |->
                CallerEdabit(xs[i], IF fault.i = i THEN fault.kind ELSE "none", fault.j)]
            r == Prover_random_edabits(tape_r,
                     IF fault.kind = "random_edabit" THEN fault.i ELSE 0)
            dabits == Prover_random_dabits(tape_d)
            random_triples == Prover_random_triples(tape_t)
            common == [pc |-> "conv", err |-> "none",
                       num_bucket |-> sh.B, num_cut |-> sh.C, with_quicksilver |-> sh.qs,
                       tape |-> Unset,
                       k |-> FDABIT_SECURITY_PARAMETER, fd_res |-> TRUE,
                       j |-> 0, loops |-> 0,
                       ti |-> (IF sh.qs \/ sh.C = 0 THEN 0 ELSE sh.C * sh.m - 1),
                       x_batch |-> <<>>, y_batch |-> <<>>, random_triples |-> <<>>,
                       st |-> Unset, res |-> <<>>, e_m_batch |-> <<>>, check |-> <<>>,
                       bucket_channels |-> bucket_channels, workers |-> <<>>, jn |-> 0]
        IN  /\ prover = conv_buckets(common @@
                   [edabits_vector |-> edabits_vector,
                    r |-> r.edabits_vec,
                    dabits |-> dabits.dabit_vec,
                    pool_triples |-> random_triples.out,
                    fault |-> fault, debug |-> FALSE])
            /\ verifier = conv_buckets(common @@
                   [edabits_vector |-> SeqMap(EdabitsVerifier, edabits_vector),
                    r |-> Verifier_random_edabits(tape_r, r.sent[1]),
                    dabits |-> Verifier_random_dabits(tape_d, dabits.sent[1]),
                    pool_triples |-> Verifier_random_triples(tape_t, random_triples.sent[1]),
                    triples_ok |-> TRUE, cut_i |-> sh.C])
            /\ toVerifier = <<>>
            /\ toProver = <<>>
            /\ hist = [flipped |-> 0, hit |-> FALSE, perm_p |-> Unset, perm_v |-> Unset]

NextPar ==
    \/ P_add_rounds
    \/ V_add_rounds
    \/ P_add_check
    \/ V_add_check
    \/ P_conv_loop_open
    \/ V_conv_loop_open
    \/ P_conv_loop_check_zero
    \/ V_conv_loop_check_zero
    \/ P_duplicate
    \/ V_duplicate
    \/ Worker_conv_loop
    \/ P_join
    \/ V_join

SpecPar == InitPar /\ [][NextPar]_vars


\* What the conv_loop of the two roles return on bucket j (from 0) of the
\* pools.
BucketRun(j) == conv_loop_run(spawn(prover, j), spawn(verifier, j))

\* Every bucket's conv_loop returns Ok on the Verifier, on the Prover.
VerifierBucketsAccept == \A j \in 0..(verifier.num_bucket - 1) : BucketRun(j).v = "none"

ProverBucketsAccept == \A j \in 0..(prover.num_bucket - 1) : BucketRun(j).p = "none"

\* The run is sequential or has as many channels as buckets, and no
\* duplicate failed.
OneChannelPerBucket ==
    /\ prover.bucket_channels \in {NoChannels, SomeChannels(prover.num_bucket)}
    /\ prover.err # "duplicate"
    /\ verifier.err # "duplicate"

\* C11: on the same caller edabits and pools, with bucket_channels None and
\* with Some of B channels (no duplicate failing), a role returns Ok exactly
\* when conv_loop accepts every one of the B bucket windows: it returns Ok
\* only if they all accept, it fails only if one does not, and when all
\* accept it is not stuck before Ok.
ParallelEquivalence ==
    OneChannelPerBucket =>
        \A accept \in {[v |-> VerifierBucketsAccept, p |-> ProverBucketsAccept]} :
            /\ verifier.pc = "done" => accept.v
            /\ verifier.pc \in {"failed", "panicked"} => ~accept.v
            /\ prover.pc = "done" => accept.p
            /\ prover.pc \in {"failed", "panicked"} => ~accept.p
            /\ (accept.v /\ accept.p) => (BothDone \/ ENABLED NextPar)

\* Two buckets on two channels, accepted by both roles.
ParallelEquivalenceWitness ==
    /\ prover.bucket_channels = SomeChannels(2)
    /\ prover.num_bucket = 2
    /\ BothDone
    /\ VerifierBucketsAccept
    /\ \A k \in 1..2 : verifier.workers[k].state = "ok"


(***************************************************************************)
(* SpecConvAll: conv from its call without auxiliary channels, and from    *)
(* the entry of step 6 with or without them.                               *)
(***************************************************************************)
InitConvAll == InitConv \/ InitPar

NextConvAll ==
    \/ NextConv
    \/ P_duplicate
    \/ V_duplicate
    \/ Worker_conv_loop
    \/ P_join
    \/ V_join

SpecConvAll == InitConvAll /\ [][NextConvAll]_vars

\* How far the main task of a role has come.
Progress(role) ==
    <<role.pc, role.err, role.k, role.j, role.ti, role.jn, Len(role.workers),
      role.x_batch, role.y_batch>>

\* A worker of the role returned Err.
WorkerFailed(role) == \E k \in 1..Len(role.workers) : role.workers[k].state = "failed"

\* C12: once a step of a role's conv has failed (its err is set), the main
\* task of the role goes no further: no later phase, no repetition, no
\* success, no message written to the main channel: the role has returned
\* the error or panicked.  A worker that returned Err stays so, and a role
\* with such a worker never returns Ok.
ErrorsFatal ==
    [][/\ prover.err # "none" =>
             /\ Progress(prover') = Progress(prover)
             /\ Len(toVerifier') <= Len(toVerifier)
       /\ verifier.err # "none" =>
             /\ Progress(verifier') = Progress(verifier)
             /\ Len(toProver') <= Len(toProver)
       /\ \A k \in 1..Len(verifier.workers) :
             verifier.workers[k].state = "failed" =>
                 verifier'.workers[k].state = "failed"
       /\ prover'.err # "none" => prover'.pc \in {"failed", "panicked"}
       /\ verifier'.err # "none" => verifier'.pc \in {"failed", "panicked"}
       /\ WorkerFailed(prover') => prover'.pc # "done"
       /\ WorkerFailed(verifier') => verifier'.pc # "done"]_vars

\* The Prover's duplicate failed after a worker was spawned, and the worker
\* went on to finish its conv_loop; the Verifier failed at a join.
ErrorsFatalWitness ==
    /\ prover.err = "duplicate"
    /\ prover.pc = "failed"
    /\ Len(prover.workers) = 1
    /\ prover.workers[1].state = "failed"
    /\ verifier.pc = "panicked"


\* The phase of conv a role is in: 0 at the call, 1 in fdabit (the pools
\* generated), 2 fdabit done, 3 shuffled and in the cut, 4 in the buckets,
\* 5 returned Ok.
Rank(role) ==
    CASE role.pc = "conv" -> 0
      [] role.pc \in {"fdabit", "fd_seed", "fd_rows", "fd_check"} -> 1
      [] role.pc = "fd_done" -> 2
      [] role.pc \in {"cut", "cut_triples", "cut_triple_zero"} -> 3
      [] role.pc \in {"add", "add_check", "add_done", "loop_zero"} -> 4
      [] role.pc = "done" -> 5

Alive(role) == role.pc \notin {"failed", "panicked"}

\* What the phases before the one a role is in have left behind.
PhasesBehind(role, perm) ==
    LET n == Len(role.edabits_vector)
        nb_bits == Len(role.edabits_vector[1].bits)
        pool == n * role.num_bucket + role.num_cut
    IN  /\ Rank(role) = 0 =>
              (role.r = <<>> /\ role.dabits = <<>> /\ role.pool_triples = <<>>)
        /\ Rank(role) >= 1 =>
              /\ Len(role.r) = pool
              /\ Len(role.dabits) = n * role.num_bucket
              /\ Len(role.pool_triples) =
                     IF role.with_quicksilver THEN 0 ELSE pool * nb_bits
        /\ Rank(role) = 1 => role.k <= FDABIT_SECURITY_PARAMETER
        /\ Rank(role) >= 2 => (role.k = FDABIT_SECURITY_PARAMETER /\ role.fd_res)
        /\ Rank(role) <= 2 => (perm = Unset /\ role.loops = 0)
        /\ Rank(role) >= 3 => perm # Unset
        /\ Rank(role) = 3 => role.loops = 0
        /\ Rank(role) >= 4 =>
              (CutTriples(role) > 0 => role.ti = CutTriples(role) - 1)
        /\ Rank(role) = 4 => (role.loops = role.j + 1 /\ role.j < role.num_bucket)
        /\ Rank(role) = 5 => role.loops = role.num_bucket

\* One step of a role in the order of the phases.
InOrder(role, next) ==
    /\ ~Alive(role) => ~Alive(next)
    /\ (Alive(role) /\ Alive(next)) =>
          /\ Rank(next) >= Rank(role)
          /\ next.k >= role.k
          /\ next.loops \in {role.loops, role.loops + 1}

\* The three inputs of the pools in the order the Prover makes them.
PoolInputs(queue, role) ==
    LET n == Len(role.edabits_vector)
        nb_bits == Len(role.edabits_vector[1].bits)
        pool == n * role.num_bucket + role.num_cut
        sizes == <<pool, n * role.num_bucket>>
                     \o (IF role.with_quicksilver THEN <<>> ELSE <<pool * nb_bits>>)
        flds == <<"FE", "FE", "F2">>
    IN  /\ Len(queue) = Len(sizes)
        /\ \A i \in 1..Len(sizes) :
              /\ queue[i].op = "input"
              /\ queue[i].fld = flds[i]
              /\ Len(queue[i].vals) = sizes[i]

\* C13: each role goes through the phases in their order (the pools:
\* edabits, dabits, then triples with Wolverine; fdabit; the seed and the
\* shuffle; the cut; the buckets) and ends in Ok or in failure: a step never
\* goes back, a role that failed stays so, and a role in a phase has behind
\* it what every earlier phase leaves when it succeeds, each bucket run once;
\* with Wolverine the buckets are entered from the last triple of the cut.
LinearPhases ==
    [][/\ InOrder(prover, prover')
       /\ InOrder(verifier, verifier')
       /\ Alive(prover') => PhasesBehind(prover', hist'.perm_p)
       /\ Alive(verifier') =>
             /\ PhasesBehind(verifier', hist'.perm_v)
             /\ Rank(verifier') >= 4 => verifier'.cut_i = verifier'.num_cut
       /\ (prover.pc = "conv" /\ prover'.pc # "conv") => PoolInputs(toVerifier', prover)
       /\ (Alive(verifier) /\ Rank(verifier) <= 3 /\ Alive(verifier') /\ Rank(verifier') >= 4
              /\ CutTriples(verifier) > 0) =>
             (verifier.pc = "cut_triple_zero" /\ verifier.ti = CutTriples(verifier) - 1)
       /\ (Alive(prover) /\ Rank(prover) <= 3 /\ Alive(prover') /\ Rank(prover') >= 4
              /\ CutTriples(prover) > 0) =>
             (prover.pc = "cut_triples" /\ prover.ti = CutTriples(prover) - 1)
      ]_vars

\* Both roles returned Ok after pools with triples and a cut with a triple.
LinearPhasesWitness ==
    /\ BothDone
    /\ ~prover.with_quicksilver
    /\ prover.num_cut = 1
    /\ CutTriples(verifier) = 1


\* C14 as stated: while the main task of a role is in a call of duplicate,
\* no worker of the role has started.
DuplicatesBeforeWorkersAsStated ==
    /\ prover.pc = "duplicate" => prover.workers = <<>>
    /\ verifier.pc = "duplicate" => verifier.workers = <<>>

\* A step of a role that starts a worker: the worker of bucket j, out of
\* the call of duplicate made for bucket j.
StartsWorker(role, next) ==
    Len(next.workers) # Len(role.workers) =>
        /\ role.pc = "duplicate"
        /\ role.j = Len(role.workers)
        /\ Len(next.workers) = Len(role.workers) + 1
        /\ SubSeq(next.workers, 1, Len(role.workers)) = role.workers
        /\ next.workers[Len(next.workers)].state = "running"

\* The buckets whose worker has started are those whose duplicate returned.
OneDuplicatePerWorker(role) ==
    /\ role.pc = "duplicate" => Len(role.workers) = role.j
    /\ role.pc \in {"join", "done"} => Len(role.workers) = role.bucket_channels.len

\* C14: the main task of a role calls duplicate once per worker, one call at
\* a time, and the worker of a bucket starts only when the call made for it
\* has returned; the workers of the buckets before it have started by then.
DuplicateBeforeItsWorker ==
    [][/\ StartsWorker(prover, prover')
       /\ StartsWorker(verifier, verifier')
       /\ OneDuplicatePerWorker(prover')
       /\ OneDuplicatePerWorker(verifier')]_vars

\* The Prover is in the duplicate for its second worker while its first has
\* run conv_loop to the end.
DuplicateBeforeItsWorkerWitness ==
    /\ prover.pc = "duplicate"
    /\ prover.j = 1
    /\ Len(prover.workers) = 1
    /\ prover.workers[1].state = "ok"


\* The worker of bucket j (from 0) of a role ran conv_loop to the end on
\* the whole of the caller's edabits and on the windows [j*n, j*n + n) of
\* the random edabits and of the dabits.
RanBucket(role, j) ==
    LET n == Len(role.edabits_vector)
    IN  /\ j + 1 <= Len(role.workers)
        /\ role.workers[j + 1].state = "ok"
        /\ role.workers[j + 1].edabits_vector_par = role.edabits_vector
        /\ role.workers[j + 1].r_par = Slice(role.r, j * n, j * n + n)
        /\ role.workers[j + 1].dabits_par = Slice(role.dabits, j * n, j * n + n)

\* C15: a conv with auxiliary channels that returned Ok has run exactly B
\* workers, one conv_loop for each bucket j in [0, B).
ExactlyBWorkersAsStated ==
    /\ (prover.bucket_channels.some /\ prover.pc = "done") =>
          /\ Len(prover.workers) = prover.num_bucket
          /\ \A j \in 0..(prover.num_bucket - 1) : RanBucket(prover, j)
    /\ (verifier.bucket_channels.some /\ verifier.pc = "done") =>
          /\ Len(verifier.workers) = verifier.num_bucket
          /\ \A j \in 0..(verifier.num_bucket - 1) : RanBucket(verifier, j)


\* conv of the role has come to its end: Ok, Err or a panic.
Ended(role) == role.pc \in {"done", "failed", "panicked"}

\* A conv with auxiliary channels that has ended has no worker still
\* running, and after a failed worker or a failed duplicate it has ended
\* with an error result.
JoinedAndErr(role) ==
    (role.bucket_channels.some /\ Ended(role)) =>
        /\ \A k \in 1..Len(role.workers) : role.workers[k].state # "running"
        /\ (WorkerFailed(role) \/ role.err = "duplicate") => role.pc = "failed"

\* C16: a conv with auxiliary channels ends only after every worker it
\* spawned has finished, and when a worker fails, or a duplicate fails
\* after some workers were spawned, it ends with an error result.
JoinBarrierAsStated == JoinedAndErr(prover) /\ JoinedAndErr(verifier)


(***************************************************************************)
(* SpecCalls: the interactive steps of an honest conv.  Each role keeps    *)
(* the list of the calls it has issued to FCom[F_2] ("F2"), to FCom[F_p]   *)
(* ("FE") and of the seed blocks it has read from or written to the        *)
(* channel; a worker of the fan-out keeps the list of its own bucket       *)
(* channel.  The lists are written role by role from the two impl blocks.  *)
(***************************************************************************)
Call(op, fld, size) == [op |-> op, fld |-> fld, size |-> size]

RECURSIVE Times(_, _)
Times(calls, k) == IF k <= 0 THEN <<>> ELSE calls \o Times(calls, k - 1)

P_random_edabits_calls(nb_bits, num) ==
    Times(Times(<<Call("random", "F2", 1)>>, nb_bits), num)
        \o <<Call("input", "FE", num)>>

P_random_dabits_calls(num) ==
    Times(<<Call("random", "F2", 1)>>, num) \o <<Call("input", "FE", num)>>

P_random_triples_calls(num) ==
    Times(<<Call("random", "F2", 1), Call("random", "F2", 1)>>, num)
        \o <<Call("input_low_level", "F2", num)>>

\* fdabit up to the flush before the seed is read.
P_fdabit_commit_calls(n) ==
    LET s == FDABIT_SECURITY_PARAMETER
        gamma == fdabit_gamma(n)
    IN  Times(<<Call("input", "FE", gamma)>>, s)
            \o <<Call("input", "F2", s), Call("input", "FE", s * gamma)>>

\* fdabit from the read of the seed.
P_fdabit_check_calls(n) ==
    LET s == FDABIT_SECURITY_PARAMETER
        gamma == fdabit_gamma(n)
    IN  <<Call("read_block", "channel", 1),
          Call("open", "F2", s),
          Call("open", "FE", s),
          Call("quicksilver_check_multiply", "FE", s * gamma)>>

\* Steps 5)a) and 5)b) of conv.
P_cut_calls(nb_bits, num_cut, with_quicksilver) ==
    Times(<<Call("open", "F2", nb_bits), Call("open", "FE", 1)>>, num_cut)
        \o (IF ~with_quicksilver
            THEN Times(<<Call("open", "F2", 2), Call("check_zero", "F2", 1)>>,
                       num_cut * nb_bits)
            ELSE <<>>)

\* conv_loop: bit_add_carry (the carries input, one input_low_level per bit,
\* the check of the n * nb_bits triples), convert_bit_2_field (one open),
\* the open of the sum bits, check_zero.
P_conv_loop_calls(n, nb_bits, random_triples_len) ==
    <<Call("input", "F2", n)>>
        \o Times(<<Call("input_low_level", "F2", n)>>, nb_bits)
        \o <<IF random_triples_len = 0
             THEN Call("quicksilver_check_multiply", "F2", n * nb_bits)
             ELSE Call("wolverine_check_multiply", "F2", n * nb_bits),
             Call("open", "F2", n),
             Call("open", "F2", n * nb_bits),
             Call("check_zero", "FE", n)>>

P_duplicate_calls == <<Call("duplicate", "F2", 1), Call("duplicate", "FE", 1)>>

V_random_edabits_calls(nb_bits, num) ==
    Times(Times(<<Call("random", "F2", 1)>>, nb_bits), num)
        \o <<Call("input", "FE", num)>>

V_random_dabits_calls(num) ==
    Times(<<Call("random", "F2", 1)>>, num) \o <<Call("input", "FE", num)>>

V_random_triples_calls(num) ==
    Times(<<Call("random", "F2", 1), Call("random", "F2", 1)>>, num)
        \o <<Call("input_low_level", "F2", num)>>

\* The order of a Verifier that receives the bits c1 before the rows c_m.
V_fdabit_commit_calls_bits_first(n) ==
    LET s == FDABIT_SECURITY_PARAMETER
        gamma == fdabit_gamma(n)
    IN  <<Call("input", "F2", s)>>
            \o Times(<<Call("input", "FE", gamma)>>, s)
            \o <<Call("input", "FE", gamma * s)>>

\* fdabit up to the write of the seed.
V_fdabit_commit_calls(n) ==
    LET s == FDABIT_SECURITY_PARAMETER
        gamma == fdabit_gamma(n)
    IN  Times(<<Call("input", "FE", gamma)>>, s)
            \o <<Call("input", "F2", s), Call("input", "FE", gamma * s)>>

\* fdabit from the write of the seed.
V_fdabit_check_calls(n) ==
    LET s == FDABIT_SECURITY_PARAMETER
        gamma == fdabit_gamma(n)
    IN  <<Call("write_block", "channel", 1),
          Call("open", "F2", s),
          Call("open", "FE", s),
          Call("quicksilver_check_multiply", "FE", s * gamma)>>

V_cut_calls(nb_bits, num_cut, with_quicksilver) ==
    Times(<<Call("open", "F2", nb_bits), Call("open", "FE", 1)>>, num_cut)
        \o (IF ~with_quicksilver
            THEN Times(<<Call("open", "F2", 2), Call("check_zero", "F2", 1)>>,
                       num_cut * nb_bits)
            ELSE <<>>)

\* conv_loop: bit_add_carry (the carries input, one input_low_level per bit,
\* the check of the n * nb_bits triples), convert_bit_2_field (one open),
\* the open of the sum bits, check_zero.
V_conv_loop_calls(n, nb_bits, random_triples_len) ==
    <<Call("input", "F2", n)>>
        \o Times(<<Call("input_low_level", "F2", n)>>, nb_bits)
        \o <<IF random_triples_len = 0
             THEN Call("quicksilver_check_multiply", "F2", n * nb_bits)
             ELSE Call("wolverine_check_multiply", "F2", n * nb_bits),
             Call("open", "F2", n),
             Call("open", "F2", n * nb_bits),
             Call("check_zero", "FE", n)>>

V_duplicate_calls == <<Call("duplicate", "F2", 1), Call("duplicate", "FE", 1)>>


\* A role appends the calls of a phase to its list and moves to pc.
Issue(role, calls, pc) == [role EXCEPT !.calls = @ \o calls, !.pc = pc]

\* how_many of conv, step 1)c).
how_many(role) ==
    role.num_bucket * role.n * role.nb_bits + role.num_cut * role.nb_bits

\* The sequential loop of step 6 before pass j.
issue_bucket(role, j) ==
    IF j >= role.num_bucket
    THEN [role EXCEPT !.pc = "done", !.j = j]
    ELSE [role EXCEPT !.pc = "bucket", !.j = j]

\* The join loop before the join of handle jn (from 0).
issue_join_next(role, jn) ==
    IF jn >= Len(role.workers)
    THEN [role EXCEPT !.pc = "done", !.jn = jn]
    ELSE [role EXCEPT !.pc = "join", !.jn = jn]

\* The fan-out loop before pass j: the slices of the pass, then duplicate.
issue_fan_out(role, j) ==
    LET idx_base == j * role.n
    IN  IF j >= role.bucket_channels.len
        THEN issue_join_next(role, 0)
        ELSE IF \/ idx_base + role.n > role.n * role.num_bucket + role.num_cut
                \/ idx_base + role.n > role.n * role.num_bucket
                \/ /\ ~role.with_quicksilver
                   /\ idx_base * role.nb_bits + role.n * role.nb_bits > how_many(role)
             THEN [role EXCEPT !.pc = "panicked", !.j = j]
             ELSE [role EXCEPT !.pc = "duplicate", !.j = j]

\* Step 6 of conv: the sequential loop or the fan-out.
issue_buckets(role) ==
    IF ~role.bucket_channels.some THEN issue_bucket(role, 0) ELSE issue_fan_out(role, 0)

\* The main task of ProverConv::conv from one call to the next: steps
\* 1)a) to 1)c), fdabit up to the seed, step 5, one pass of the bucket loop,
\* one pass of the fan-out loop (duplicate, spawn), one join.
P_issue ==
    /\ prover.pc \in {"random_edabits", "random_dabits", "random_triples", "fdabit",
                     "cut", "bucket", "duplicate", "join"}
    /\ prover.pc = "join" => prover.workers[prover.jn + 1].state = "ok"
    /\ LET n == prover.n
           nb_bits == prover.nb_bits
           num_bucket == prover.num_bucket
           num_cut == prover.num_cut
           window == IF prover.with_quicksilver THEN 0 ELSE n * nb_bits
       IN  prover' =
             CASE prover.pc = "random_edabits" ->
                    Issue(prover, P_random_edabits_calls(nb_bits, n * num_bucket + num_cut),
                          "random_dabits")
               [] prover.pc = "random_dabits" ->
                    Issue(prover, P_random_dabits_calls(n * num_bucket), "random_triples")
               [] prover.pc = "random_triples" ->
                    Issue(prover, IF ~prover.with_quicksilver
                                  THEN P_random_triples_calls(how_many(prover))
                                  ELSE <<>>, "fdabit")
               [] prover.pc = "fdabit" ->
                    IF ~check_parameters(n * num_bucket, fdabit_gamma(n * num_bucket)).ok
                    THEN [prover EXCEPT !.pc = "failed"]
                    ELSE Issue(prover, P_fdabit_commit_calls(n * num_bucket), "fdabit_seed")
               [] prover.pc = "cut" ->
                    issue_buckets(Issue(prover, P_cut_calls(nb_bits, num_cut,
                                                         prover.with_quicksilver), "cut"))
               [] prover.pc = "bucket" ->
                    issue_bucket(Issue(prover, P_conv_loop_calls(n, nb_bits, window),
                                       "bucket"), prover.j + 1)
               [] prover.pc = "duplicate" ->
                    issue_fan_out([Issue(prover, P_duplicate_calls, "duplicate")
                                      EXCEPT !.workers = Append(@, [state |-> "running",
                                                                    calls |-> <<>>])],
                                  prover.j + 1)
               [] prover.pc = "join" -> issue_join_next(prover, prover.jn + 1)
    /\ UNCHANGED <<verifier, toVerifier, toProver, hist>>

\* A worker of the fan-out runs conv_loop on its bucket channel.
P_worker_issue ==
    /\ \E k \in 1..Len(prover.workers) :
          /\ prover.workers[k].state = "running"
          /\ prover' = [prover EXCEPT !.workers[k] =
                        [state |-> "ok",
                         calls |-> P_conv_loop_calls(prover.n, prover.nb_bits,
                                       IF prover.with_quicksilver THEN 0
                                       ELSE prover.n * prover.nb_bits)]]
    /\ UNCHANGED <<verifier, toVerifier, toProver, hist>>

\* The Prover reads a seed block: in fdabit, then in step 3 of conv.
P_issue_seed ==
    /\ prover.pc \in {"fdabit_seed", "seed"}
    /\ toProver # <<>>
    /\ toProver' = Tail(toProver)
    /\ prover' = IF prover.pc = "fdabit_seed"
                 THEN Issue(prover, P_fdabit_check_calls(prover.n * prover.num_bucket),
                            "seed")
                 ELSE Issue(prover, <<Call("read_block", "channel", 1)>>, "cut")
    /\ UNCHANGED <<verifier, toVerifier, hist>>

\* The main task of VerifierConv::conv from one call to the next: steps
\* 1)a) to 1)c), fdabit up to the seed, step 5, one pass of the bucket loop,
\* one pass of the fan-out loop (duplicate, spawn), one join.
V_issue ==
    /\ verifier.pc \in {"random_edabits", "random_dabits", "random_triples", "fdabit",
                     "cut", "bucket", "duplicate", "join"}
    /\ verifier.pc = "join" => verifier.workers[verifier.jn + 1].state = "ok"
    /\ LET n == verifier.n
           nb_bits == verifier.nb_bits
           num_bucket == verifier.num_bucket
           num_cut == verifier.num_cut
           window == IF verifier.with_quicksilver THEN 0 ELSE n * nb_bits
       IN  verifier' =
             CASE verifier.pc = "random_edabits" ->
                    Issue(verifier, V_random_edabits_calls(nb_bits, n * num_bucket + num_cut),
                          "random_dabits")
               [] verifier.pc = "random_dabits" ->
                    Issue(verifier, V_random_dabits_calls(n * num_bucket), "random_triples")
               [] verifier.pc = "random_triples" ->
                    Issue(verifier, IF ~verifier.with_quicksilver
                                  THEN V_random_triples_calls(how_many(verifier))
                                  ELSE <<>>, "fdabit")
               [] verifier.pc = "fdabit" ->
                    IF ~check_parameters(n * num_bucket, fdabit_gamma(n * num_bucket)).ok
                    THEN [verifier EXCEPT !.pc = "failed"]
                    ELSE Issue(verifier, V_fdabit_commit_calls(n * num_bucket), "fdabit_seed")
               [] verifier.pc = "cut" ->
                    issue_buckets(Issue(verifier, V_cut_calls(nb_bits, num_cut,
                                                         verifier.with_quicksilver), "cut"))
               [] verifier.pc = "bucket" ->
                    issue_bucket(Issue(verifier, V_conv_loop_calls(n, nb_bits, window),
                                       "bucket"), verifier.j + 1)
               [] verifier.pc = "duplicate" ->
                    issue_fan_out([Issue(verifier, V_duplicate_calls, "duplicate")
                                      EXCEPT !.workers = Append(@, [state |-> "running",
                                                                    calls |-> <<>>])],
                                  verifier.j + 1)
               [] verifier.pc = "join" -> issue_join_next(verifier, verifier.jn + 1)
    /\ UNCHANGED <<prover, toVerifier, toProver, hist>>

\* A worker of the fan-out runs conv_loop on its bucket channel.
V_worker_issue ==
    /\ \E k \in 1..Len(verifier.workers) :
          /\ verifier.workers[k].state = "running"
          /\ verifier' = [verifier EXCEPT !.workers[k] =
                        [state |-> "ok",
                         calls |-> V_conv_loop_calls(verifier.n, verifier.nb_bits,
                                       IF verifier.with_quicksilver THEN 0
                                       ELSE verifier.n * verifier.nb_bits)]]
    /\ UNCHANGED <<prover, toVerifier, toProver, hist>>

\* The Verifier writes a seed block: in fdabit, then in step 3 of conv.
V_issue_seed ==
    /\ verifier.pc \in {"fdabit_seed", "seed"}
    /\ toProver' = Append(toProver, "seed")
    /\ verifier' = IF verifier.pc = "fdabit_seed"
                   THEN Issue(verifier,
                              V_fdabit_check_calls(verifier.n * verifier.num_bucket), "seed")
                   ELSE Issue(verifier, <<Call("write_block", "channel", 1)>>, "cut")
    /\ UNCHANGED <<prover, toVerifier, hist>>

\* The parameters of a conv call: n caller edabits of m bits, B buckets, C
\* cut elements, with or without quicksilver.
CallShapes ==
    [n : 1..MaxEdabits, m : 1..MaxNbBits, B : 0..MaxBucket, C : 0..MaxCut, qs : BOOLEAN]

InitCalls ==
    \E sh \in CallShapes :
    \E bucket_channels \in ParChannels :
        LET role == [pc |-> "random_edabits", calls |-> <<>>, workers |-> <<>>,
                     j |-> 0, jn |-> 0,
                     n |-> sh.n, nb_bits |-> sh.m, num_bucket |-> sh.B,
                     num_cut |-> sh.C, with_quicksilver |-> sh.qs,
                     bucket_channels |-> bucket_channels]
        IN  /\ prover = role
            /\ verifier = role
            /\ toVerifier = <<>>
            /\ toProver = <<>>
            /\ hist = [flipped |-> 0, hit |-> FALSE, perm_p |-> Unset, perm_v |-> Unset]

NextCalls ==
    \/ P_issue
    \/ P_issue_seed
    \/ P_worker_issue
    \/ V_issue
    \/ V_issue_seed
    \/ V_worker_issue

SpecCalls == InitCalls /\ [][NextCalls]_vars


\* A call of the Prover and a call of the Verifier are the same interactive
\* step: same kind, field and batch size, a read of a seed block against
\* the write of one.
Matches(pcall, vcall) ==
    IF pcall.op = "read_block" \/ vcall.op = "write_block"
    THEN pcall = Call("read_block", "channel", 1) /\ vcall = Call("write_block", "channel", 1)
    ELSE pcall = vcall

\* Two lists agree call by call as far as both go.
SameSteps(pcalls, vcalls) ==
    \A i \in 1..Len(pcalls) : i <= Len(vcalls) => Matches(pcalls[i], vcalls[i])

\* C17: in an honest conv the calls issued by the Prover are, in kind, order,
\* field and batch size, the calls issued by the Verifier, on the main
\* channel and on every bucket channel, a seed read facing a seed write:
\* at any moment the two lists agree as far as both go, and two roles at
\* the same point of conv have issued equally many calls.
SynchronousMatching ==
    /\ SameSteps(prover.calls, verifier.calls)
    /\ \A k \in 1..Len(prover.workers) :
          k <= Len(verifier.workers) =>
              SameSteps(prover.workers[k].calls, verifier.workers[k].calls)
    /\ (prover.pc = verifier.pc /\ prover.j = verifier.j /\ prover.jn = verifier.jn) =>
          /\ Len(prover.calls) = Len(verifier.calls)
          /\ Len(prover.workers) = Len(verifier.workers)
    /\ \A k \in 1..Len(prover.workers) :
          (k <= Len(verifier.workers) /\ prover.workers[k].state = "ok"
              /\ verifier.workers[k].state = "ok") =>
              Len(prover.workers[k].calls) = Len(verifier.workers[k].calls)

\* Both roles have returned Ok from a Wolverine conv with a cut and two
\* workers, each role having read or written both seeds and each worker
\* having run its conv_loop.
SynchronousMatchingWitness ==
    /\ prover.pc = "done" /\ verifier.pc = "done"
    /\ ~prover.with_quicksilver /\ prover.num_cut > 0
    /\ Len(prover.workers) = 2 /\ Len(verifier.workers) = 2
    /\ \A k \in 1..2 : prover.workers[k].calls # <<>> /\ verifier.workers[k].calls # <<>>
    /\ \E i \in 1..Len(prover.calls) : prover.calls[i].op = "duplicate"
    /\ Cardinality({i \in 1..Len(prover.calls) : prover.calls[i].op = "read_block"}) = 2
    /\ Cardinality({i \in 1..Len(verifier.calls) : verifier.calls[i].op = "write_block"}) = 2


\* Positions (from 1) of the window [j*n, j*n + n) of bucket j.
BucketWindow(role, j) ==
    LET n == Len(role.edabits_vector)
    IN  (j * n + 1)..(j * n + n)

\* Positions (from 1) of the window [n*B, n*B + C) of the cut.
CutWindow(role) ==
    LET n == Len(role.edabits_vector)
    IN  (n * role.num_bucket + 1)..(n * role.num_bucket + role.num_cut)

\* The pools of a role: their sizes, the window of the bucket it enters,
\* and the windows as a partition of the pool.  perm is the shuffle of the
\* role as a list of the positions the elements had before it.
PoolsOnce(role, perm) ==
    LET n == Len(role.edabits_vector)
        B == role.num_bucket
        C == role.num_cut
        nb_bits == Len(role.edabits_vector[1].bits)
    IN  /\ role.pc \notin {"conv", "failed", "panicked"} =>
              /\ Len(role.r) = n * B + C
              /\ Len(role.dabits) = n * B
              /\ ~role.with_quicksilver => Len(role.pool_triples) = (n * B + C) * nb_bits
              /\ UNION {BucketWindow(role, j) : j \in 0..(B - 1)} \cup CutWindow(role)
                     = 1..Len(role.r)
              /\ UNION {BucketWindow(role, j) : j \in 0..(B - 1)} = 1..Len(role.dabits)
              /\ \A j \in 0..(B - 1) :
                    /\ BucketWindow(role, j) \cap CutWindow(role) = {}
                    /\ \A i \in 0..(B - 1) :
                          i # j => BucketWindow(role, i) \cap BucketWindow(role, j) = {}
        /\ role.pc = "add" =>
              /\ role.j < B
              /\ role.loops = role.j + 1
              /\ Len(role.y_batch) = n
              /\ Len(BucketDabits(role)) = n
              /\ \A k \in 1..n :
                    /\ role.y_batch[k] = role.r[role.j * n + k]
                    /\ BucketDabits(role)[k] = role.dabits[role.j * n + k]
        /\ role.pc = "done" => role.loops = B
        /\ perm # Unset =>
              /\ Len(perm.r) = n * B + C
              /\ {perm.r[k] : k \in 1..Len(perm.r)} = 1..(n * B + C)
              /\ {perm.dabits[k] : k \in 1..Len(perm.dabits)} = 1..(n * B)
              /\ \A j \in 0..(B - 1) :
                    {perm.r[k] : k \in BucketWindow(role, j)}
                        \cap {perm.r[k] : k \in CutWindow(role)} = {}

\* C18: conv generates n*B + C random edabits and n*B random dabits; after
\* the shuffle bucket j runs on the positions [j*n, j*n + n) of both pools
\* and the cut opens the positions [n*B, n*B + C) of the edabits, one after
\* the other; the windows are pairwise disjoint and cover the pools, all B
\* buckets are run, and no edabit opened in the cut is used in a bucket.
PoolsConsumedOnce ==
    /\ PoolsOnce(prover, hist.perm_p)
    /\ PoolsOnce(verifier, hist.perm_v)
    /\ (verifier.pc = "cut" /\ Len(toVerifier) >= 2) =>
          LET idx == Len(verifier.edabits_vector) * verifier.num_bucket
                         + verifier.cut_i + 1
          IN  /\ idx \in CutWindow(verifier)
              /\ toVerifier[1] = OpenMsg("F2", prover.r[idx].bits)
              /\ toVerifier[2] = OpenMsg("FE", <<prover.r[idx].value>>)
    /\ verifier.pc \in {"add", "done"} => verifier.cut_i = verifier.num_cut

\* Both roles have returned Ok after a cut of one edabit and two buckets,
\* the shuffle having moved the last edabit of the pool into a bucket.
PoolsConsumedOnceWitness ==
    /\ BothDone
    /\ prover.num_bucket = 2
    /\ prover.num_cut = 1
    /\ verifier.loops = 2
    /\ hist.perm_v # Unset
    /\ hist.perm_v.r[3] # 3


(***************************************************************************)
(* SpecPerm: generate_permutation on a vector of distinct elements, the    *)
(* draws of the generator left free.                                       *)
(***************************************************************************)
\* generate_permutation is run on vectors of at most MaxPermLen elements.
MaxPermLen == 6

\* The vectors the loop `while i > 0` can end with from v and i, over all
\* the values gen_range(0..i) can draw.
RECURSIVE permutation_loop_results(_, _)
permutation_loop_results(v, i) ==
    IF i > 0
    THEN UNION {permutation_loop_results(Swap(v, idx, i), i - 1) : idx \in 0..(i - 1)}
    ELSE {v}

\* The vectors generate_permutation can leave in v.
generate_permutation_results(v) ==
    IF Len(v) = 0 THEN {v} ELSE permutation_loop_results(v, Len(v) - 1)

InitPerm ==
    /\ \E size \in 0..MaxPermLen :
          prover = [pc |-> "generate_permutation", v |-> [k \in 1..size |-> k], i |-> 0,
                    draws |-> 0]
    /\ verifier = [pc |-> "idle"]
    /\ toVerifier = <<>>
    /\ toProver = <<>>
    /\ hist = [flipped |-> 0, hit |-> FALSE, perm_p |-> Unset, perm_v |-> Unset]

\* let size = v.len(); if size == 0 { return; } let mut i = size - 1;
GP_enter ==
    /\ prover.pc = "generate_permutation"
    /\ prover' = IF Len(prover.v) = 0
                 THEN [prover EXCEPT !.pc = "returned"]
                 ELSE [prover EXCEPT !.pc = "while", !.i = Len(prover.v) - 1]
    /\ UNCHANGED <<verifier, toVerifier, toProver, hist>>

\* One pass of the loop: idx drawn in 0..i-1, v.swap(idx, i), i -= 1; draws
\* counts the calls of gen_range.
GP_swap ==
    /\ prover.pc = "while"
    /\ prover.i > 0
    /\ \E idx \in 0..(prover.i - 1) :
          prover' = [prover EXCEPT !.v = Swap(prover.v, idx, prover.i), !.i = @ - 1,
                                   !.draws = @ + 1]
    /\ UNCHANGED <<verifier, toVerifier, toProver, hist>>

GP_return ==
    /\ prover.pc = "while"
    /\ prover.i = 0
    /\ prover' = [prover EXCEPT !.pc = "returned"]
    /\ UNCHANGED <<verifier, toVerifier, toProver, hist>>

NextPerm == GP_enter \/ GP_swap \/ GP_return

SpecPerm == InitPerm /\ [][NextPerm]_vars

\* The permutations of the positions of a vector of size elements.
PermutationsOf(size) ==
    {f \in [1..size -> 1..size] : {f[k] : k \in 1..size} = 1..size}

\* C19: generate_permutation is a Fisher-Yates shuffle: of the vector it is
\* called on, every permutation, the identity included, is the result for
\* some sequence of draws.
FisherYatesAsStated ==
    prover.pc = "generate_permutation" =>
        \A perm \in PermutationsOf(Len(prover.v)) :
            perm \in generate_permutation_results(prover.v)


(***************************************************************************)
(* SpecPools: random_edabits(nb_bits, num) and random_dabits(num) of the   *)
(* Prover, on every list of bits FCom[F_2].random can hand out.            *)
(***************************************************************************)
\* random_edabits is run for at most MaxPoolNum edabits of at most
\* MaxPoolBits bits, MaxPoolCells bits in all.
MaxPoolNum == 3

MaxPoolBits == 6

MaxPoolCells == 8

InitPools ==
    \E nb_bits \in 1..MaxPoolBits, num \in 0..MaxPoolNum :
        /\ nb_bits * num <= MaxPoolCells
        /\ \E tape_r \in [1..num -> BitSeqs(nb_bits)], tape_d \in BitSeqs(num) :
              prover = [pc |-> "random_edabits", nb_bits |-> nb_bits, num |-> num,
                        tape |-> [r |-> tape_r, d |-> tape_d],
                        edabits_vec |-> <<>>, dabit_vec |-> <<>>,
                        calls |-> <<>>, dabit_calls |-> <<>>]
        /\ verifier = [pc |-> "idle"]
        /\ toVerifier = <<>>
        /\ toProver = <<>>
        /\ hist = [flipped |-> 0, hit |-> FALSE, perm_p |-> Unset, perm_v |-> Unset]

\* random_edabits(channel, rng, nb_bits, num) of an honest Prover.
Pools_random_edabits ==
    /\ prover.pc = "random_edabits"
    /\ LET e == Prover_random_edabits(prover.tape.r, 0)
       IN  /\ prover' = [prover EXCEPT
                            !.pc = "random_dabits",
                            !.edabits_vec = e.edabits_vec,
                            !.calls = P_random_edabits_calls(prover.nb_bits, prover.num)]
           /\ toVerifier' = toVerifier \o e.sent
    /\ UNCHANGED <<verifier, toProver, hist>>

\* random_dabits(channel, rng, num).
Pools_random_dabits ==
    /\ prover.pc = "random_dabits"
    /\ LET d == Prover_random_dabits(prover.tape.d)
       IN  /\ prover' = [prover EXCEPT
                            !.pc = "returned",
                            !.dabit_vec = d.dabit_vec,
                            !.dabit_calls = P_random_dabits_calls(prover.num)]
           /\ toVerifier' = toVerifier \o d.sent
    /\ UNCHANGED <<verifier, toProver, hist>>

NextPools == Pools_random_edabits \/ Pools_random_dabits

SpecPools == InitPools /\ [][NextPools]_vars

\* The integer sum of bits[i] * 2^i over the clear bits of an edabit, index 0
\* (position 1) the least significant.
RECURSIVE BitsSum(_, _)
BitsSum(bits, k) ==
    IF k = 0 THEN 0 ELSE bits[k][1] * 2^(k - 1) + BitsSum(bits, k - 1)

\* The calls are count calls of FCom[F_2].random, then one FCom[F_p].input
\* of num values.
RandomsThenInput(calls, count, num) ==
    /\ Len(calls) = count + 1
    /\ \A i \in 1..count : calls[i] = Call("random", "F2", 1)
    /\ calls[count + 1] = Call("input", "FE", num)

\* C20: random_edabits(m, N) returns N edabits of m bits each, the value of
\* each being the sum of bits[i] * 2^i mod p with index 0 least significant,
\* after m*N calls of FCom[F_2].random and one FCom[F_p].input of the N
\* values; random_dabits(N) returns N dabits whose value is the bit lifted
\* to F_p, after N calls of random and one input of N values.
RandomPoolsWellFormed ==
    /\ prover.pc \in {"random_dabits", "returned"} =>
          /\ Len(prover.edabits_vec) = prover.num
          /\ \A k \in 1..prover.num :
                /\ Len(prover.edabits_vec[k].bits) = prover.nb_bits
                /\ \A i \in 1..prover.nb_bits :
                      prover.edabits_vec[k].bits[i] = Commit(prover.tape.r[k][i])
                /\ prover.edabits_vec[k].value[1]
                       = BitsSum(prover.edabits_vec[k].bits, prover.nb_bits) % P
          /\ RandomsThenInput(prover.calls, prover.nb_bits * prover.num, prover.num)
          /\ toVerifier[1] = InputMsg("FE", [k \in 1..prover.num |->
                                                 prover.edabits_vec[k].value[1]])
    /\ prover.pc = "returned" =>
          /\ Len(prover.dabit_vec) = prover.num
          /\ \A k \in 1..prover.num :
                /\ prover.dabit_vec[k].bit = Commit(prover.tape.d[k])
                /\ prover.dabit_vec[k].value[1]
                       = (IF prover.dabit_vec[k].bit[1] = 1 THEN 1 ELSE 0)
          /\ RandomsThenInput(prover.dabit_calls, prover.num, prover.num)
          /\ Len(toVerifier) = 2
          /\ toVerifier[2] = InputMsg("FE", [k \in 1..prover.num |->
                                                 prover.dabit_vec[k].value[1]])

\* random_edabits and random_dabits have returned an edabit of six bits whose
\* sum exceeds p, and a dabit of bit 1.
RandomPoolsWellFormedWitness ==
    /\ prover.pc = "returned"
    /\ prover.num = 1
    /\ prover.nb_bits = 6
    /\ BitsSum(prover.edabits_vec[1].bits, 6) = P + 3
    /\ prover.edabits_vec[1].value[1] = 3
    /\ prover.dabit_vec[1].value[1] = 1


(***************************************************************************)
(* SpecAddAny: bit_add_carry called with batches of any two lengths.       *)
(***************************************************************************)
\* x_batch of nx elements and y_batch of ny elements, not both empty, of m
\* bits each.
InitAddAny ==
    \E m \in 1..MaxAddCells :
    \E nx \in 0..MaxAddCells, ny \in 0..MaxAddCells :
        /\ nx * m <= MaxAddCells
        /\ ny * m <= MaxAddCells
        /\ nx + ny > 0
        /\ \E xs \in [1..nx -> BitSeqs(m)], ys \in [1..ny -> BitSeqs(m)] :
              LET x_batch == [n \in 1..nx |-> EdabitsProver(xs[n], 0)]
                  y_batch == [n \in 1..ny |-> EdabitsProver(ys[n], 0)]
              IN  /\ prover = [pc |-> "add", x_batch |-> x_batch, y_batch |-> y_batch,
                               random_triples |-> <<>>, st |-> Unset, res |-> <<>>,
                               err |-> "none"]
                  /\ verifier = [pc |-> "add",
                                 x_batch |-> SeqMap(EdabitsVerifier, x_batch),
                                 y_batch |-> SeqMap(EdabitsVerifier, y_batch),
                                 random_triples |-> <<>>, st |-> Unset, res |-> <<>>,
                                 opened |-> <<>>, err |-> "none"]
                  /\ toVerifier = <<>>
                  /\ toProver = <<>>
                  /\ hist = <<>>

SpecAddAny == InitAddAny /\ [][NextAdd]_vars

\* C21: bit_add_carry on batches of different lengths returns the error
\* "incompatible input vectors in bit_add_carry" on either role, having
\* written nothing to the channel, read nothing from it and collected no
\* triple; on batches of equal lengths it does not return this error.
AddLengthMismatch ==
    /\ Len(prover.x_batch) # Len(prover.y_batch) =>
          /\ prover.pc \in {"add", "failed"}
          /\ prover.pc = "failed" =>
                prover.err = "incompatible input vectors in bit_add_carry"
          /\ prover.st = Unset
          /\ prover.res = <<>>
          /\ toVerifier = <<>>
    /\ Len(verifier.x_batch) # Len(verifier.y_batch) =>
          /\ verifier.pc \in {"add", "failed"}
          /\ verifier.pc = "failed" =>
                verifier.err = "incompatible input vectors in bit_add_carry"
          /\ verifier.st = Unset
          /\ verifier.res = <<>>
          /\ toProver = <<>>
    /\ Len(prover.x_batch) = Len(prover.y_batch) =>
          /\ prover.err # "incompatible input vectors in bit_add_carry"
          /\ verifier.err # "incompatible input vectors in bit_add_carry"

\* Both roles have returned the error on two elements against one.
AddLengthMismatchWitness ==
    /\ Len(prover.x_batch) = 2
    /\ Len(prover.y_batch) = 1
    /\ prover.pc = "failed"
    /\ verifier.pc = "failed"
    /\ prover.err = "incompatible input vectors in bit_add_carry"
    /\ verifier.err = "incompatible input vectors in bit_add_carry"

\* The verdict a role has returned agrees with the res it accumulated over
\* the repetitions of step 8 and with the check of the step-2 triples.
FdabitVerdictOf(role, fail) ==
    /\ role.pc = "fd_done" => (role.k = FDABIT_SECURITY_PARAMETER /\ role.fd_res)
    /\ (role.pc = "failed" /\ role.err = fail)
           => (role.k = FDABIT_SECURITY_PARAMETER /\ ~role.fd_res)
    /\ (role.pc = "failed" /\ role.k = FDABIT_SECURITY_PARAMETER /\ role.fd_res)
           => role.err \in {"check_multiply", "open"}

\* C22: fdabit returns success exactly when all s = 38 repetitions agreed,
\* (r_k = 1) being the low bit of tau_k, and the check of the s * gamma
\* step-2 triples passed: res once false stays false through the remaining
\* repetitions, a role that returned success ran all 38 repetitions with res
\* true (and, on the Verifier, sound triples), and a role whose res is false
\* after the triple check returned its "fail fdabit" error.
FdabitVerdict ==
    /\ [](/\ FdabitVerdictOf(prover, "fail fdabit prover")
          /\ FdabitVerdictOf(verifier, "fail fdabit verifier")
          /\ verifier.pc = "fd_done" => verifier.triples_ok
          /\ (verifier.pc = "failed" /\ verifier.err = "check_multiply")
                 => ~verifier.triples_ok)
    /\ [][/\ ~prover.fd_res => ~prover'.fd_res
          /\ ~verifier.fd_res => ~verifier'.fd_res
          /\ (prover.pc = "fd_rows" /\ prover'.pc \notin {"fd_rows", "fd_done"})
                 => (~prover.fd_res /\ prover'.err = "fail fdabit prover")
          /\ (verifier.pc = "fd_check" /\ verifier.triples_ok
                 /\ verifier'.pc # "fd_check")
                 => (verifier'.pc = "fd_done") = verifier.fd_res]_vars

\* One dabit, its value flipped: a repetition disagreed and both roles
\* returned failure after the 38 repetitions and the triple check.
FdabitVerdictWitness ==
    /\ Len(prover.dabits) = 1
    /\ hist.flipped = 1
    /\ verifier.k = FDABIT_SECURITY_PARAMETER
    /\ ~verifier.fd_res /\ verifier.triples_ok
    /\ verifier.pc = "failed" /\ verifier.err = "fail fdabit verifier"
    /\ ~prover.fd_res
    /\ prover.pc = "failed" /\ prover.err = "fail fdabit prover"

\* The inputs ProverConv::bit_add_carry made on a batch of num elements of
\* m bits: one of num zero carries, then for each bit position one of the num
\* products of that position, in the order of the triples.
AddInputsInRounds(st, num, m) ==
    /\ Len(st.sent) = m + 1
    /\ st.sent[1] = InputMsg("F2", [n \in 1..num |-> 0])
    /\ \A i \in 1..m :
          /\ st.sent[i + 1].op = "input"
          /\ Len(st.sent[i + 1].vals) = num
          /\ \A n \in 1..num :
                st.sent[i + 1].vals[n] = st.triples[(i - 1) * num + n][3][1]

\* C23: on a batch of any size num and width m each role performs one input
\* for the initial carries, all zero, then one batched input per bit
\* position, m in total, the whole batch of position i before position
\* i + 1; the triple check is one batch call made after all m rounds, so the
\* number of rounds is m + 1 inputs and one check whatever num.
AddRoundStructure ==
    /\ [](/\ prover.pc \in {"add_check", "add_done", "opened"}
                => AddInputsInRounds(prover.st, Len(prover.x_batch),
                                     Len(prover.x_batch[1].bits))
          /\ verifier.pc = "add" => toProver = <<>>
          /\ (prover.pc = "add_check" /\ verifier.pc = "add")
                => toVerifier = prover.st.sent
          /\ (prover.pc = "add_check" /\ verifier.pc = "add_check")
                => (/\ toVerifier = <<>>
                    /\ toProver = <<ChallengeMsg(CheckKind(verifier.random_triples))>>)
          /\ prover.pc = "add" => toVerifier = <<>>)
    /\ [][/\ (verifier.pc = "add" /\ verifier'.pc # "add")
                => (/\ Len(toVerifier) - Len(toVerifier')
                          = Len(verifier.x_batch[1].bits) + 1
                    /\ AddInputsReady(toVerifier, Len(verifier.x_batch),
                                      Len(verifier.x_batch[1].bits))
                    /\ Len(verifier'.st.triples)
                          = Len(verifier.x_batch) * Len(verifier.x_batch[1].bits)
                    /\ Len(toProver') = Len(toProver) + 1)
          /\ (prover.pc = "add_check" /\ prover'.pc # "add_check")
                => (/\ Len(toProver) = 1 /\ toProver' = <<>>
                    /\ toVerifier' = Append(toVerifier,
                           ProofMsg(CheckKind(prover.random_triples))))
          /\ (verifier.pc = "add_check" /\ verifier'.pc # "add_check")
                => (/\ Len(toVerifier) - Len(toVerifier') = 1
                    /\ toProver' = toProver)]_vars

\* Three elements of two bits: both roles past the two rounds, three values
\* in each of the three inputs, the triple check pending on the Prover.
AddRoundStructureWitness ==
    /\ Len(prover.x_batch) = 3
    /\ Len(prover.x_batch[1].bits) = 2
    /\ prover.pc = "add_check"
    /\ verifier.pc = "add_check"
    /\ Len(prover.st.sent) = 3
    /\ Len(verifier.st.triples) = 6
    /\ \E n \in 1..3 : prover.st.sent[3].vals[n] = 1

\* The carry into bit i (from 1) of the sum of the bit vectors x and y.
CarryInto(x, y, i) ==
    (IntOf(SubSeq(x, 1, i - 1)) + IntOf(SubSeq(y, 1, i - 1))) \div Pow2(i - 1)

\* C24: bit_add_carry collects num * m triples; the triple of bit i of
\* element n, at position i * num + n counting from 0, is (u, v, w) with
\* u = x_n[i] + c and v = y_n[i] + c for the carry c into that bit and, on
\* the Prover, w = u * v; the Verifier holds the keys of the same triples in
\* the same order, and the carry into the next bit is c + w.
AddTriplesInOrder ==
    LET num == Len(prover.x_batch)
        m == Len(prover.x_batch[1].bits)
        x(n) == ClearBits(prover.x_batch[n])
        y(n) == ClearBits(prover.y_batch[n])
    IN  /\ prover.pc \in {"add_check", "add_done", "opened"} =>
              /\ Len(prover.st.triples) = num * m
              /\ \A i \in 1..m, n \in 1..num :
                    LET t == prover.st.triples[(i - 1) * num + n]
                        c == CarryInto(x(n), y(n), i)
                    IN  /\ t[1] = Commit(F2Add(x(n)[i], c))
                        /\ t[2] = Commit(F2Add(y(n)[i], c))
                        /\ t[3] = Commit(F2Mul(t[1][1], t[2][1]))
                        /\ CarryInto(x(n), y(n), i + 1) = F2Add(c, t[3][1])
              /\ \A n \in 1..num :
                    prover.st.ci_batch[n] = CarryInto(x(n), y(n), m + 1)
        /\ (verifier.pc \in {"add_check", "add_done", "opened"}
               /\ prover.pc \in {"add_check", "add_done", "opened"}) =>
              /\ Len(verifier.st.triples) = num * m
              /\ \A k \in 1..(num * m), j \in 1..3 :
                    verifier.st.triples[k][j] = prover.st.triples[k][j][2]

\* Two elements of three bits whose triples differ within a round and whose
\* carries differ, collected by both roles.
AddTriplesInOrderWitness ==
    /\ Len(prover.x_batch) = 2
    /\ Len(prover.x_batch[1].bits) = 3
    /\ prover.pc = "add_check"
    /\ verifier.pc = "add_check"
    /\ Len(verifier.st.triples) = 6
    /\ prover.st.triples[3] # prover.st.triples[4]
    /\ prover.st.triples[3][3][1] = 1
    /\ prover.st.ci_batch = <<1, 0>>

\* The error of an edabit as the Verifier holds it: its authenticated value
\* less the fold of its authenticated bits, in F_p.
EdabitError(e) == FEAdd(e.value, FENeg(convert_bits_to_field(e.bits)))

\* The random edabits of the bucket are valid and its dabits consistent.
BucketValid(role) ==
    /\ \A i \in 1..Len(role.y_batch) : EdabitError(role.y_batch[i]) = 0
    /\ \A i \in 1..Len(BucketDabits(role)) :
          BucketDabits(role)[i].value = f2_to_fe(BucketDabits(role)[i].bit)

\* C25: the value conv_loop hands to check_zero for input i is the sum of
\* the errors of E[i] and R[i]; when R[i] is valid and D[i] consistent it is
\* E[i].value - fold_bits(E[i].bits) in F_p, on both roles, and check_zero
\* passes iff E[i].value = fold_bits(E[i].bits) mod p for every i.
ConvLoopCheckValue ==
    /\ [](/\ verifier.pc = "loop_zero" =>
                /\ Len(verifier.check) = Len(verifier.x_batch)
                /\ \A i \in 1..Len(verifier.x_batch) :
                      /\ verifier.check[i] = FEAdd(EdabitError(verifier.x_batch[i]),
                                                   EdabitError(verifier.y_batch[i]))
                      /\ BucketValid(verifier)
                            => verifier.check[i] = EdabitError(verifier.x_batch[i])
          /\ (prover.pc = "loop_zero" /\ prover.fault.kind # "flip_clear") =>
                \A i \in 1..Len(prover.x_batch) :
                    prover.check[i] =
                        Commit(FEAdd(EdabitError(EdabitsVerifier(prover.x_batch[i])),
                                     EdabitError(EdabitsVerifier(prover.y_batch[i])))))
    /\ [][(verifier.pc = "loop_zero" /\ verifier'.pc # "loop_zero"
              /\ BucketValid(verifier))
             => ((verifier'.pc # "failed")
                    = (\A i \in 1..Len(verifier.x_batch) :
                          verifier.x_batch[i].value
                              = convert_bits_to_field(verifier.x_batch[i].bits)))]_vars

\* A caller's edabit of two bits whose authenticated bits fold to another
\* value than the one authenticated, against valid random edabits: the
\* checked value is its error, not zero, and the Verifier's check_zero fails.
ConvLoopCheckValueWitness ==
    /\ prover.fault.kind = "flip"
    /\ verifier.pc = "failed"
    /\ verifier.err = "check_zero"
    /\ Len(verifier.x_batch) >= 1
    /\ Len(verifier.x_batch[1].bits) = 2
    /\ BucketValid(verifier)
    /\ \E i \in 1..Len(verifier.check) :
          /\ verifier.check[i] # 0
          /\ verifier.check[i] = EdabitError(verifier.x_batch[i])

\* The number of input messages in a queue.
InputsIn(queue) == Cardinality({k \in 1..Len(queue) : queue[k].op = "input"})

\* The commitments of steps 1 and 2 of fdabit at the head of a queue: s
\* inputs of gamma padding values, the s anchors over F2, the s * gamma
\* products.
FdabitCommitted(queue, s, gamma) ==
    /\ Len(queue) >= s + 2
    /\ \A k \in 1..s : queue[k] = InputSized("FE", gamma)
    /\ queue[s + 1] = InputSized("F2", s)
    /\ queue[s + 2] = InputSized("FE", s * gamma)

PastShuffle(role) ==
    \/ role.pc \in {"cut", "cut_triples", "cut_triple_zero", "add", "add_check",
                    "add_done", "loop_zero", "done"}
    \/ role.loops > 0

\* C27: the Verifier draws the shuffle seed only after every pool was
\* committed and fdabit returned success, and writes it at once; the Prover
\* shuffles with the seed it read; neither role opens an edabit or a triple
\* of the cut or runs a bucket before its three pools are shuffled.
ShuffleSeedOrdering ==
    /\ [](/\ PastShuffle(prover) => hist.perm_p # Unset
          /\ PastShuffle(verifier) => hist.perm_v # Unset
          /\ (\E k \in 1..Len(toVerifier) : toVerifier[k].op = "open")
                => hist.perm_p # Unset
          /\ (\E k \in 1..Len(toProver) : toProver[k] \in
                    {ShuffleSeedMsg(seed) : seed \in 0..(SeedSpace - 1)})
                => (hist.perm_v # Unset /\ hist.perm_p = Unset)
          /\ hist.perm_p # Unset => hist.perm_v # Unset)
    /\ [][/\ (hist.perm_v = Unset /\ hist'.perm_v # Unset)
                => /\ verifier.pc = "fd_done"
                   /\ verifier.k = FDABIT_SECURITY_PARAMETER
                   /\ verifier.fd_res /\ verifier.triples_ok
                   /\ prover.pc \notin {"conv", "fdabit"}
                   /\ InputsIn(toVerifier) = 0
                   /\ \E seed \in 0..(SeedSpace - 1) :
                         /\ toProver' = Append(toProver, ShuffleSeedMsg(seed))
                         /\ hist'.perm_v = Verifier_shuffle(seed, Positions(verifier.r),
                                                Positions(verifier.dabits),
                                                Positions(verifier.pool_triples))
          /\ (hist.perm_p = Unset /\ hist'.perm_p # Unset)
                => /\ prover.pc = "fd_done"
                   /\ toProver # <<>>
                   /\ toProver' = Tail(toProver)
                   /\ \E seed \in 0..(SeedSpace - 1) :
                         /\ Head(toProver) = ShuffleSeedMsg(seed)
                         /\ hist'.perm_p = Prover_shuffle(seed, Positions(prover.r),
                                                Positions(prover.dabits),
                                                Positions(prover.pool_triples))]_vars

\* Both roles shuffled three random edabits out of their order by the seed
\* the Verifier drew, the Prover's opens of the cut in flight.
ShuffleSeedOrderingWitness ==
    /\ hist.perm_p # Unset
    /\ hist.perm_v # Unset
    /\ Len(verifier.r) = 3
    /\ hist.perm_p.r # <<1, 2, 3>>
    /\ verifier.pc = "cut"
    /\ verifier.cut_i = 0
    /\ Len(toVerifier) >= 2
    /\ toVerifier[1].op = "open"

\* A role of fdabit whose check of the parameters failed: still at its
\* entry or returned with the error of the check, no repetition run.
AbortedAtCheck(role, n) ==
    /\ role.pc \in {"fdabit", "failed"}
    /\ role.pc = "failed" => role.err = check_parameters(n, fdabit_gamma(n)).err
    /\ role.k = 0

\* C28: fdabit derives gamma = floor(log2(n + 1)) + 1 from the number n of
\* dabits and checks the parameters before any call of FCom and any read or
\* write of the channel: when the check fails both roles return its error,
\* no message sent or received, and when it passes neither role returns
\* that error; the two roles hold the same n and so the same gamma.
FdabitChecksFirst ==
    LET n == Len(prover.dabits)
        gamma == fdabit_gamma(n)
        chk == check_parameters(n, gamma)
    IN  /\ Len(verifier.dabits) = n
        /\ gamma = FloorLog2(n + 1) + 1
        /\ ~chk.ok =>
              /\ AbortedAtCheck(prover, n)
              /\ AbortedAtCheck(verifier, n)
              /\ toVerifier = <<>>
              /\ toProver = <<>>
        /\ chk.ok =>
              /\ prover.err # "Fdabit invalid parameter configuration"
              /\ verifier.err # "Fdabit invalid parameter configuration"

\* Three dabits, one of them faulty, in a debug build: both roles returned
\* the error of the check, the channel untouched.
FdabitChecksFirstWitness ==
    /\ Len(prover.dabits) = 3
    /\ hist.flipped = 2
    /\ prover.debug
    /\ prover.pc = "failed"
    /\ prover.err = "Fdabit invalid parameter configuration"
    /\ verifier.pc = "failed"
    /\ verifier.err = "Fdabit invalid parameter configuration"
    /\ toVerifier = <<>>
    /\ toProver = <<>>


(***************************************************************************)
(* SpecRow: the check of the parameters and one repetition of fdabit on a  *)
(* batch of honest dabits: the Prover computes r and tau and opens them,   *)
(* the Verifier reads them and takes step 8.                               *)
(***************************************************************************)
MaxRowN == 15

MaxRowFull == 3

\* Bit vectors of length n: all of them for a short batch, for a longer one
\* those of c ones then zeros.
RowBits(n) ==
    IF n <= MaxRowFull THEN BitSeqs(n)
    ELSE {[i \in 1..n |-> IF i <= c THEN 1 ELSE 0] : c \in 0..n}

InitRow ==
    \E n \in 0..MaxRowN :
    \E bits \in RowBits(n), e_row \in RowBits(n), bs \in BitSeqs(fdabit_gamma(n)) :
        LET dabits == [i \in 1..n |-> DabitOf(bits[i], FALSE)]
        IN  /\ prover = [pc |-> "row", dabits |-> dabits, bs |-> bs, e_row |-> e_row,
                         row |-> Unset, err |-> "none"]
            /\ verifier = [pc |-> "row", dabits |-> SeqMap(DabitVerifier, dabits),
                           e_row |-> e_row, row |-> Unset, err |-> "none"]
            /\ toVerifier = <<>>
            /\ toProver = <<>>
            /\ hist = <<>>

\* ProverConv::fdabit for one k: the check of the parameters, steps 1, 2, 4,
\* 6 and 7, r and tau opened.
P_row ==
    /\ prover.pc = "row"
    /\ \E chk \in {check_parameters(Len(prover.dabits),
                                     fdabit_gamma(Len(prover.dabits)))} :
          IF ~chk.ok
          THEN /\ prover' = [prover EXCEPT !.pc = "failed", !.err = chk.err]
               /\ UNCHANGED toVerifier
          ELSE \E row \in {Prover_fdabit_row(prover.dabits, prover.bs, prover.e_row)} :
                  /\ prover' = [prover EXCEPT !.pc = "row_done", !.row = row]
                  /\ toVerifier' = toVerifier \o
                         <<[op |-> "row", row |-> row],
                           OpenMsg("F2", <<row.r>>), OpenMsg("FE", <<row.tau>>)>>
    /\ UNCHANGED <<verifier, toProver>>
    /\ UNCHANGED hist

\* VerifierConv::fdabit for one k: the check of the parameters, the macs of
\* the inputs, r and tau read, step 8.
V_row ==
    /\ verifier.pc = "row"
    /\ \E chk \in {check_parameters(Len(verifier.dabits),
                                     fdabit_gamma(Len(verifier.dabits)))} :
          IF ~chk.ok
          THEN /\ verifier' = [verifier EXCEPT !.pc = "failed", !.err = chk.err]
               /\ UNCHANGED toVerifier
          ELSE /\ Len(toVerifier) >= 3
               /\ toVerifier[1].op = "row"
               /\ \E row \in {Verifier_fdabit_row(verifier.dabits, toVerifier[1].row,
                                     verifier.e_row, toVerifier[2].vals[1],
                                     toVerifier[3].vals[1])} :
                     verifier' = [verifier EXCEPT !.pc = "row_done",
                         !.row = [tau |-> toVerifier[3].vals[1],
                                  r |-> toVerifier[2].vals[1]] @@ row]
               /\ toVerifier' = SubSeq(toVerifier, 4, Len(toVerifier))
    /\ UNCHANGED <<prover, toProver>>
    /\ UNCHANGED hist

NextRow ==
    \/ P_row
    \/ V_row

SpecRow == InitRow /\ [][NextRow]_vars

\* The integer f[1] + ... + f[k].
RECURSIVE SumTo(_, _)
SumTo(f, k) == IF k = 0 THEN 0 ELSE f[k] + SumTo(f, k - 1)

\* The integer sum of a repetition: the challenged dabit bits and the
\* padding bits weighted by the powers of two.
RowSum(dabits, e_row, bs) ==
    SumTo([i \in 1..Len(dabits) |-> e_row[i] * dabits[i].bit[1]], Len(dabits))
        + SumTo([i \in 1..Len(bs) |-> Pow2(i - 1) * bs[i]], Len(bs))

\* C29: whenever check_parameters(n, gamma) succeeds with
\* gamma = floor(log2(n + 1)) + 1, for every challenge and every padding the
\* integer sum_i e[k][i] * b_i + sum_{i < gamma} 2^i * c[k][i] is at most
\* n + 2^gamma - 1 and below p, so tau_k is that integer on both roles and
\* its low bit is its parity.
FdabitNoWraparound ==
    LET n == Len(prover.dabits)
        gamma == fdabit_gamma(n)
        sum == RowSum(prover.dabits, prover.e_row, prover.bs)
    IN  /\ prover.pc = "row_done" =>
              /\ gamma = FloorLog2(n + 1) + 1
              /\ sum <= n + Pow2(gamma) - 1
              /\ n + Pow2(gamma) - 1 < P
              /\ prover.row.tau[1] = sum
              /\ LowBit(prover.row.tau[1]) = (sum % 2 = 1)
        /\ verifier.pc = "row_done" =>
              /\ verifier.row.err = "none"
              /\ verifier.row.tau = sum
              /\ verifier.row.b = ((verifier.row.r = 1) = (sum % 2 = 1))
        /\ check_parameters(n, gamma).ok =>
              (prover.pc # "failed" /\ verifier.pc # "failed")

\* Two dabits of bit 1, both challenged, padding 1 + 2: tau is 5, the
\* largest sum of a batch that passes the check in this field.
FdabitNoWraparoundWitness ==
    /\ Len(prover.dabits) = 2
    /\ verifier.pc = "row_done"
    /\ verifier.row.tau = 5
    /\ verifier.row.tau = Len(prover.dabits) + Pow2(Len(prover.bs)) - 1
    /\ verifier.row.b

\* The role is inside conv_loop.
InBucket(role) == role.pc \in {"add", "add_check", "add_done", "loop_zero"}

\* A step of a role in sequential mode, passed being the verdict of its
\* check_zero on the values it holds: a bucket starts when the one before
\* it has passed its check_zero, bucket 0 out of the cut; a failure inside
\* a bucket starts no other.
OneBucketAtATime(role, next, passed) ==
    /\ next.loops # role.loops =>
          /\ next.loops = role.loops + 1
          /\ next.pc = "add"
          /\ next.j = role.loops
          /\ next.j < role.num_bucket
          /\ role.loops = 0 => ~InBucket(role)
          /\ role.loops > 0 =>
                (role.pc = "loop_zero" /\ role.j = role.loops - 1 /\ passed)
    /\ (role.pc = "loop_zero" /\ next.pc # "loop_zero") =>
          IF passed
          THEN next.pc \in {"add", "done"} /\ next.err = "none"
          ELSE next.pc = "failed" /\ next.err = "check_zero"
                   /\ next.loops = role.loops /\ next.j = role.j
    /\ (InBucket(role) /\ next.pc = "failed") =>
          (next.loops = role.loops /\ next.j = role.j)
    /\ role.pc \in {"failed", "done"} => next = role

\* C30: without auxiliary channels conv runs the buckets one at a time in
\* increasing j; the conv_loop of bucket j + 1 starts only after the
\* check_zero of bucket j has passed, and the first bucket that fails ends
\* conv with its error, the later buckets not run.
SequentialBuckets ==
    /\ [](/\ InBucket(prover) =>
                (prover.j = prover.loops - 1 /\ prover.j < prover.num_bucket)
          /\ InBucket(verifier) =>
                (verifier.j = verifier.loops - 1 /\ verifier.j < verifier.num_bucket)
          /\ prover.pc = "done" => prover.loops = prover.num_bucket
          /\ verifier.pc = "done" => verifier.loops = verifier.num_bucket
          /\ prover.loops <= prover.num_bucket
          /\ verifier.loops <= verifier.num_bucket)
    /\ [][/\ OneBucketAtATime(prover, prover', Prover_check_zero(prover.check))
          /\ OneBucketAtATime(verifier, verifier',
                              Verifier_check_zero(verifier.check))]_vars

\* Two buckets: the first failed its check_zero and ended conv on both
\* roles, the second not run.
SequentialBucketsWitness ==
    /\ verifier.num_bucket = 2
    /\ verifier.pc = "failed"
    /\ verifier.err = "check_zero"
    /\ verifier.j = 0
    /\ verifier.loops = 1
    /\ prover.pc = "failed"
    /\ prover.err = "check_zero"
    /\ prover.loops = 1


(***************************************************************************)
(* SpecTriples: conv in sequential mode on honest inputs, with Wolverine   *)
(* over every pool of random triples of up to MaxTriples triples, and with *)
(* Quicksilver.  The caller's edabits and the random edabits and dabits    *)
(* are those of bits 0.                                                    *)
(***************************************************************************)
MaxTriples == 4

TripleShapes ==
    {sh \in [n : 1..MaxEdabits, m : 1..MaxNbBits, B : 0..MaxBucket, C : 0..MaxCut,
             qs : BOOLEAN] :
        /\ (sh.n * sh.B + sh.C) * sh.m <= MaxTriples
        /\ sh.n * sh.B <= MaxDabits}

InitTriples ==
    \E sh \in TripleShapes :
    \E tape_t \in [1..(IF sh.qs THEN 0 ELSE (sh.n * sh.B + sh.C) * sh.m) -> BitSeqs(2)] :
        LET edabits_vector == [i \in 1..sh.n |->
                CallerEdabit([k \in 1..sh.m |-> 0], "none", 0)]
            tape == [r |-> [i \in 1..(sh.n * sh.B + sh.C) |-> [k \in 1..sh.m |-> 0]],
                     d |-> [i \in 1..(sh.n * sh.B) |-> 0],
                     t |-> tape_t]
            common == [pc |-> "conv", err |-> "none",
                       num_bucket |-> sh.B, num_cut |-> sh.C, with_quicksilver |-> sh.qs,
                       tape |-> tape, r |-> <<>>, dabits |-> <<>>, pool_triples |-> <<>>,
                       k |-> 0, fd_res |-> TRUE, j |-> 0, loops |-> 0, ti |-> 0,
                       x_batch |-> <<>>, y_batch |-> <<>>, random_triples |-> <<>>,
                       st |-> Unset, res |-> <<>>, e_m_batch |-> <<>>, check |-> <<>>,
                       bucket_channels |-> NoChannels, workers |-> <<>>, jn |-> 0]
        IN  /\ prover = common @@ [edabits_vector |-> edabits_vector,
                                   fault |-> NoFault, debug |-> FALSE]
            /\ verifier = common @@ [edabits_vector |-> SeqMap(EdabitsVerifier, edabits_vector),
                                     triples_ok |-> TRUE, cut_i |-> 0]
            /\ toVerifier = <<>>
            /\ toProver = <<>>
            /\ hist = [flipped |-> 0, hit |-> FALSE, perm_p |-> Unset, perm_v |-> Unset]

SpecTriples == InitTriples /\ [][NextConv]_vars

\* Positions (from 1) of the triples [j*n*m, (j+1)*n*m) of bucket j.
TripleBucketWindow(role, j) ==
    LET nm == Len(role.edabits_vector) * Len(role.edabits_vector[1].bits)
    IN  (j * nm + 1)..((j + 1) * nm)

\* The index n*B*m of the first triple of the cut.
TripleCutBase(role) ==
    Len(role.edabits_vector) * role.num_bucket * Len(role.edabits_vector[1].bits)

\* Positions (from 1) of the triples [n*B*m, n*B*m + C*m) of the cut.
TripleCutWindow(role) ==
    LET n == Len(role.edabits_vector)
        m == Len(role.edabits_vector[1].bits)
    IN  (n * role.num_bucket * m + 1)..(n * role.num_bucket * m + role.num_cut * m)

\* The triples of a role: the size of the pool, the windows as a partition
\* of it, the triple of the cut it is at, the window its bucket passes to
\* bit_add_carry, one random triple per triple the adder emits.
TriplesOnce(role) ==
    LET n == Len(role.edabits_vector)
        m == Len(role.edabits_vector[1].bits)
        B == role.num_bucket
        C == role.num_cut
    IN  /\ role.pc \notin {"conv", "failed", "panicked"} =>
              /\ Len(role.pool_triples)
                    = IF role.with_quicksilver THEN 0 ELSE n * B * m + C * m
              /\ ~role.with_quicksilver =>
                    /\ UNION {TripleBucketWindow(role, j) : j \in 0..(B - 1)}
                           \cup TripleCutWindow(role) = 1..Len(role.pool_triples)
                    /\ \A j \in 0..(B - 1) :
                          /\ Cardinality(TripleBucketWindow(role, j)) = n * m
                          /\ TripleBucketWindow(role, j) \cap TripleCutWindow(role) = {}
                          /\ \A i \in 0..(B - 1) : i # j =>
                                TripleBucketWindow(role, i)
                                    \cap TripleBucketWindow(role, j) = {}
        /\ role.pc \in {"cut_triples", "cut_triple_zero"} =>
              /\ ~role.with_quicksilver
              /\ role.loops = 0
              /\ n * B * m + role.ti + 1 \in TripleCutWindow(role)
        /\ role.pc \in {"add", "add_check", "add_done", "loop_zero"} =>
              /\ role.with_quicksilver => role.random_triples = <<>>
              /\ ~role.with_quicksilver =>
                    /\ role.ti = C * m - 1 \/ C = 0
                    /\ role.random_triples =
                          [k \in 1..(n * m) |-> role.pool_triples[role.j * n * m + k]]
              /\ role.pc # "add" =>
                    /\ Len(role.st.triples) = n * m
                    /\ ~role.with_quicksilver =>
                          Len(role.random_triples) = Len(role.st.triples)

\* C31: with Wolverine conv generates n*B*m + C*m random triples; the cut
\* opens x and y of each of the last C*m shuffled triples and runs
\* check_zero on z - x*y; bucket j passes bit_add_carry the n*m triples at
\* [j*n*m, (j+1)*n*m), one per triple of the adder; no triple serves the
\* cut and a bucket or two buckets.  With Quicksilver no random triple is
\* generated and bit_add_carry checks with quicksilver_check_multiply.
TripleAccounting ==
    /\ TriplesOnce(prover)
    /\ TriplesOnce(verifier)
    /\ prover.pc = "cut_triples" =>
          LET t == prover.pool_triples[TripleCutBase(prover) + prover.ti + 1]
          IN  prover.check = <<Commit(F2Add(t[3][1], F2Mul(t[1][1], t[2][1])))>>
    /\ (verifier.pc = "cut_triples" /\ toVerifier # <<>>) =>
          LET t == prover.pool_triples[TripleCutBase(verifier) + verifier.ti + 1]
          IN  Head(toVerifier) = OpenMsg("F2", <<t[1], t[2]>>)
    /\ verifier.pc = "cut_triple_zero" =>
          LET t == verifier.pool_triples[TripleCutBase(verifier) + verifier.ti + 1]
          IN  verifier.check = <<F2Add(t[3], F2Mul(t[1], t[2]))>>
    /\ (verifier.pc = "add_check" /\ prover.pc = "add_check"
           /\ prover.j = verifier.j) =>
          toProver = <<ChallengeMsg(IF verifier.with_quicksilver
                                    THEN "quicksilver" ELSE "wolverine")>>

\* Wolverine on one edabit of two bits, one bucket and a cut of one edabit:
\* the two triples of the cut passed, the bucket holds the first two
\* triples of the shuffled pool, and the pool has four distinct triples.
TripleAccountingWitness ==
    /\ ~verifier.with_quicksilver
    /\ Len(verifier.edabits_vector[1].bits) = 2
    /\ verifier.num_bucket = 1
    /\ verifier.num_cut = 1
    /\ verifier.pc = "add_check"
    /\ verifier.ti = 1
    /\ Len(verifier.random_triples) = 2
    /\ Cardinality({verifier.pool_triples[k] : k \in 1..4}) = 4

(***************************************************************************)
(* SpecFold: convert_bits_to_field, convert_bits_to_field_mac and          *)
(* power_two applied to every bit vector, every vector of authenticated    *)
(* bits and every exponent within the bounds.                              *)
(***************************************************************************)
MaxFoldBits == 6

MaxPowTwo == 7

InitFold ==
    \E len \in 0..MaxFoldBits :
        \E bs \in BitSeqs(len), tags \in BitSeqs(len), m \in 0..MaxPowTwo :
            /\ prover = [pc |-> "bits", v |-> bs,
                         v_mac |-> [k \in 1..len |-> MacProver(bs[k], tags[k])],
                         m |-> m, res |-> Unset, res_mac |-> Unset, pow |-> Unset]
            /\ verifier = [pc |-> "idle"]
            /\ toVerifier = <<>>
            /\ toProver = <<>>
            /\ hist = [flipped |-> 0, hit |-> FALSE, perm_p |-> Unset, perm_v |-> Unset]

\* convert_bits_to_field::<FE>(&v).
Fold_bits ==
    /\ prover.pc = "bits"
    /\ prover' = [prover EXCEPT !.pc = "macs", !.res = convert_bits_to_field(prover.v)]
    /\ UNCHANGED <<verifier, toVerifier, toProver, hist>>

\* convert_bits_to_field_mac::<FE>(&v_mac).
Fold_mac ==
    /\ prover.pc = "macs"
    /\ prover' = [prover EXCEPT !.pc = "pow",
                                !.res_mac = convert_bits_to_field_mac(prover.v_mac)]
    /\ UNCHANGED <<verifier, toVerifier, toProver, hist>>

\* power_two::<FE>(m).
Fold_pow ==
    /\ prover.pc = "pow"
    /\ prover' = [prover EXCEPT !.pc = "returned", !.pow = power_two(prover.m)]
    /\ UNCHANGED <<verifier, toVerifier, toProver, hist>>

NextFold == Fold_bits \/ Fold_mac \/ Fold_pow

SpecFold == InitFold /\ [][NextFold]_vars

\* The integer sum of bs[i] * 2^i, index 0 (position 1) least significant.
WeightedSum(bs) == SumTo([k \in 1..Len(bs) |-> bs[k] * 2^(k - 1)], Len(bs))

\* C32: convert_bits_to_field(bs) is the sum of bs[i] * 2^i mod p with index 0
\* the least significant bit, and 0 on the empty vector;
\* convert_bits_to_field_mac on authenticated bits of the same clear values
\* returns the same field element whatever their MACs; power_two(m) is
\* 2^m mod p.
FoldBitsAndPowerTwo ==
    /\ prover.pc \in {"macs", "pow", "returned"} =>
          /\ prover.res = WeightedSum(prover.v) % P
          /\ (prover.v = <<>>) => prover.res = 0
    /\ prover.pc \in {"pow", "returned"} => prover.res_mac = prover.res
    /\ prover.pc = "returned" => prover.pow = (2^prover.m) % P

\* A vector whose integer exceeds p with MACs unlike its bits, and an
\* exponent past the width of the field: both folds and power_two wrapped.
FoldBitsAndPowerTwoWitness ==
    /\ prover.pc = "returned"
    /\ WeightedSum(prover.v) > P
    /\ prover.v[1] = 1
    /\ prover.v[2] = 0
    /\ \E k \in 1..Len(prover.v_mac) : prover.v_mac[k][2] # prover.v_mac[k][1]
    /\ prover.m > FieldBits
    /\ prover.res # 0

(***************************************************************************)
(* The isolation of the workers of the fan-out.                            *)
(***************************************************************************)
\* What the main task of a role owns: its position in conv, the pools, the
\* caller's edabits, the vector of channels.
MainTask(role) ==
    <<role.pc, role.err, role.j, role.jn, role.edabits_vector, role.r, role.dabits,
      role.pool_triples, role.bucket_channels, role.x_batch, role.y_batch,
      role.random_triples, role.st, role.res, role.e_m_batch, role.check>>

\* A step in which a worker of the role changed: the worker was running and
\* only returned, with the copies it was spawned with; no other worker, nothing
\* of the main task and neither direction of the main channel changed.
WorkerStepIsolated(role, next) ==
    \A k \in 1..Len(role.workers) :
        (Len(next.workers) >= k /\ next.workers[k] # role.workers[k]) =>
            /\ role.workers[k].state = "running"
            /\ next.workers[k] = [role.workers[k] EXCEPT !.state = next.workers[k].state]
            /\ Len(next.workers) = Len(role.workers)
            /\ \A i \in 1..Len(role.workers) :
                   i # k => next.workers[i] = role.workers[i]
            /\ MainTask(next) = MainTask(role)
            /\ toVerifier' = toVerifier
            /\ toProver' = toProver

\* A step of the main task of the role: the workers spawned before it are
\* as they were.
MainStepIsolated(role, next) ==
    MainTask(next) # MainTask(role) =>
        /\ Len(next.workers) >= Len(role.workers)
        /\ \A k \in 1..Len(role.workers) : next.workers[k] = role.workers[k]

\* Worker k of the role holds by-value copies of the caller's edabits and of
\* the windows of bucket k - 1, and what it returned is what conv_loop
\* returns on these copies alone.
WorkerOwnsCopies(role, k) ==
    LET w == role.workers[k]
        own == spawn(role, k - 1)
    IN  /\ w.edabits_vector_par = own.edabits_vector_par
        /\ w.r_par = own.r_par
        /\ w.dabits_par = own.dabits_par
        /\ w.random_triples_par = own.random_triples_par

InitFdabitAny ==
    \E n \in 1..MaxDabits :
    \E bits \in BitSeqs(n), wrong \in 1..n, value \in 0..(P - 1) :
        /\ value # f2_to_fe(bits[wrong])
        /\ LET dabits == [i \in 1..n |->
                             IF i = wrong THEN DabitProver(bits[i], value)
                             ELSE DabitOf(bits[i], FALSE)]
           IN  /\ prover = [pc |-> "fdabit", dabits |-> dabits, debug |-> FALSE,
                            k |-> 0, fd_res |-> TRUE, err |-> "none"]
               /\ verifier = [pc |-> "fdabit", dabits |-> SeqMap(DabitVerifier, dabits),
                              k |-> 0, fd_res |-> TRUE, triples_ok |-> TRUE,
                              err |-> "none"]
               /\ toVerifier = <<>>
               /\ toProver = <<>>
               /\ hist = [flipped |-> wrong, hit |-> FALSE]

SpecFdabitAny == InitFdabitAny /\ [][NextFdabit]_vars

\* Some padding and some challenge row make the Verifier's step 8 disagree
\* on the batch.
SomeRowDisagrees ==
    \E bs \in BitSeqs(fdabit_gamma(Len(prover.dabits))),
       e_row \in BitSeqs(Len(prover.dabits)) :
        ~Fdabit_row_outcome(prover.dabits, verifier.dabits, bs, e_row, hist.flipped).v_b

\* C34: whatever field element a dabit holds in place of the lift of its
\* bit, once both roles are at the repetitions of fdabit some challenge row
\* makes the Verifier's cross-field check of step 8 fail.
FdabitDetectsAnyValueAsStated ==
    (prover.pc = "fd_rows" /\ verifier.pc = "fd_rows" /\ verifier.k = 0) =>
        SomeRowDisagrees

(***************************************************************************)
(* SpecPermAny: generate_permutation on every vector within the bounds,    *)
(* equal elements included, over every sequence of draws.                  *)
(***************************************************************************)
MaxPermValues == 2

InitPermAny ==
    /\ \E size \in 0..MaxPermLen :
       \E v \in [1..size -> 1..MaxPermValues] :
          prover = [pc |-> "generate_permutation", v |-> v, i |-> 0, draws |-> 0,
                    input |-> v]
    /\ verifier = [pc |-> "idle"]
    /\ toVerifier = <<>>
    /\ toProver = <<>>
    /\ hist = [flipped |-> 0, hit |-> FALSE, perm_p |-> Unset, perm_v |-> Unset]

SpecPermAny == InitPermAny /\ [][NextPerm]_vars

\* How many times x occurs in v.
Occurrences(v, x) == Cardinality({k \in 1..Len(v) : v[k] = x})

\* v and w have the same length and the same elements as many times each.
SameContent(v, w) ==
    /\ Len(v) = Len(w)
    /\ \A x \in Range(v) \cup Range(w) : Occurrences(v, x) = Occurrences(w, x)

\* The generator after count draws.
RECURSIVE RngAfter(_, _)
RngAfter(rng, count) == IF count = 0 THEN rng ELSE RngAfter(RngStep(rng), count - 1)

\* The draws generate_permutation makes on a vector of size elements.
DrawsOf(size) == IF size >= 2 THEN size - 1 ELSE 0

\* The states of the generator the shuffle can be entered with.
RngStates == 0..63

\* C35: generate_permutation preserves the content of the vector: at every
\* point the vector has the length and the elements of the input, each as
\* many times; on return a vector of length 0 or 1 is as it was and nothing
\* was drawn, a vector of length L >= 2 took exactly L - 1 draws; so from any
\* generator the call leaves the generator advanced by this count, the same
\* on both roles.
PermutationPreservesContent ==
    /\ SameContent(prover.v, prover.input)
    /\ prover.pc = "returned" =>
          /\ prover.draws = DrawsOf(Len(prover.input))
          /\ Len(prover.input) <= 1 => prover.v = prover.input
    /\ prover.pc = "generate_permutation" =>
          \A rng \in RngStates :
              \E out \in {generate_permutation(rng, prover.input)} :
                  /\ SameContent(out.v, prover.input)
                  /\ out.rng = RngAfter(rng, DrawsOf(Len(prover.input)))

\* A vector of four elements, two of them equal twice, returned in another
\* order after three draws.
PermutationPreservesContentWitness ==
    /\ prover.pc = "returned"
    /\ prover.input = <<1, 2, 2, 1>>
    /\ prover.v = <<2, 1, 1, 2>>
    /\ prover.draws = 3

(***************************************************************************)
(* SpecFdabitCheat: fdabit against a Prover that may also input, in a      *)
(* repetition, a product that is not the product of its step-2 triple.     *)
(***************************************************************************)
\* What one repetition leaves behind when the Prover inputs and_res + 1 for
\* the first triple of the row.
Fdabit_row_outcome_bad_triple(dabits, dabits_mac, bs, e_row, flipped) ==
    CHOOSE o \in
        {[p_b |-> pv[1].b, v_b |-> pv[2].b, v_err |-> pv[2].err,
          v_triples_ok |-> pv[2].triples_ok,
          hit |-> (flipped # 0 /\ e_row[flipped] = 1)] :
            pv \in {<<p, Verifier_fdabit_row(dabits_mac,
                             [p EXCEPT !.and_res_mac[1] = FEAdd(@, 1)],
                             e_row, p.r[1], p.tau[1])>> :
                        p \in {Prover_fdabit_row(dabits, bs, e_row)}}} : TRUE

\* Repetition k of VerifierConv::fdabit against such a Prover.
Fdabit_row_bad_triple ==
    /\ prover.pc = "fd_rows"
    /\ verifier.pc = "fd_rows"
    /\ prover.k < FDABIT_SECURITY_PARAMETER
    /\ \E o \in {Fdabit_row_outcome_bad_triple(prover.dabits, verifier.dabits, bs, e_row,
                                                hist.flipped) :
                      bs \in BitSeqs(fdabit_gamma(Len(prover.dabits))),
                      e_row \in BitSeqs(Len(prover.dabits))} :
          /\ prover' = [prover EXCEPT !.k = @ + 1, !.fd_res = @ /\ o.p_b]
          /\ verifier' = [verifier EXCEPT
                 !.pc = IF o.v_err = "none" THEN @ ELSE "failed",
                 !.err = o.v_err,
                 !.k = @ + 1,
                 !.fd_res = @ /\ o.v_b,
                 !.triples_ok = @ /\ o.v_triples_ok]
          /\ hist' = [hist EXCEPT !.hit = @ \/ o.hit]
    /\ UNCHANGED <<toVerifier, toProver>>

NextFdabitCheat == NextFdabit \/ Fdabit_row_bad_triple

SpecFdabitCheat == InitFdabit /\ [][NextFdabitCheat]_vars

\* C36: a disagreement of step 8 does not end fdabit: the role goes on
\* through the remaining repetitions to quicksilver_check_multiply on the
\* step-2 triples; the "fail fdabit" error is returned only in the step that
\* completes this check, on the Verifier only when the triples passed it,
\* and a Verifier whose triple check fails returns that check's error
\* whatever step 8 found.
FdabitLockstep ==
    /\ [](/\ (verifier.pc = "failed" /\ verifier.err = "fail fdabit verifier")
                 => (verifier.triples_ok /\ ~verifier.fd_res
                     /\ verifier.k = FDABIT_SECURITY_PARAMETER)
          /\ (verifier.pc = "failed" /\ verifier.k = FDABIT_SECURITY_PARAMETER
                 /\ ~verifier.triples_ok /\ verifier.err # "open")
                 => verifier.err = "check_multiply"
          /\ (prover.pc = "failed" /\ prover.err = "fail fdabit prover")
                 => (~prover.fd_res /\ prover.k = FDABIT_SECURITY_PARAMETER))
    /\ [][/\ (verifier.pc = "fd_rows" /\ verifier'.pc = "failed")
                 => verifier'.err \notin {"fail fdabit verifier", "check_multiply"}
          /\ (prover.pc = "fd_rows" /\ prover.k < FDABIT_SECURITY_PARAMETER)
                 => prover'.pc = "fd_rows"
          /\ (verifier.err # "fail fdabit verifier"
                 /\ verifier'.err = "fail fdabit verifier")
                 => (/\ verifier.pc = "fd_check"
                     /\ Head(toVerifier) = ProofMsg("quicksilver")
                     /\ toVerifier' = Tail(toVerifier))
          /\ (prover.err # "fail fdabit prover" /\ prover'.err = "fail fdabit prover")
                 => (/\ Head(toProver) = ChallengeMsg("quicksilver")
                     /\ toVerifier' = Append(toVerifier, ProofMsg("quicksilver")))
          /\ (verifier.pc = "fd_check" /\ verifier'.pc # "fd_check"
                 /\ ~verifier.triples_ok)
                 => (verifier'.pc = "failed" /\ verifier'.err = "check_multiply")]_vars

\* Two dabits, one flipped: a repetition disagreed and a step-2 triple was
\* wrong; after the 38 repetitions the Verifier returned the error of the
\* triple check, the Prover, whose check passed, "fail fdabit prover".
FdabitLockstepWitness ==
    /\ Len(verifier.dabits) = 2
    /\ hist.flipped = 2
    /\ verifier.k = FDABIT_SECURITY_PARAMETER
    /\ ~verifier.fd_res
    /\ ~verifier.triples_ok
    /\ verifier.pc = "failed"
    /\ verifier.err = "check_multiply"
    /\ prover.pc = "failed"
    /\ prover.err = "fail fdabit prover"

====
